---------------------------- MODULE Spec2Model ----------------------------
(***************************************************************************)
(* A model of the wasm-cbuf wire codec (index.js): deserializeMessage,     *)
(* serializedMessageSize, serializeMessage and schemaMapToHashMap, with    *)
(* the JavaScript buffer primitives they rest on.                          *)
(*                                                                         *)
(* Representation of JavaScript values:                                    *)
(*   an ArrayBuffer is a sequence of bytes (index 0 of the buffer is       *)
(*   element 1 of the sequence);                                           *)
(*   an ArrayBufferView is a record [buffer, byteOffset, byteLength,       *)
(*   length], with length = Undefined for a DataView;                      *)
(*   a Map is a sequence of descriptors in insertion order (schema map)    *)
(*   or a function from keys to descriptors (hash map);                    *)
(*   a bigint or a 32 bit number is named by its little-endian bytes (the  *)
(*   DataView accessors are bijections between the two), a double by the   *)
(*   bytes of its canonical encoding (all NaN collapse to one value);      *)
(*   every value carries its kind in the field k.                          *)
(***************************************************************************)
EXTENDS Integers, Sequences, FiniteSets, TLC

VARIABLES
    schemaMap,   \* the caller's schema map (Map<string, descriptor>)
    hashMap,     \* the caller's hash map (Map<bigint, descriptor>)
    data,        \* the ArrayBufferView last passed to deserializeMessage
    offset,      \* the offset argument of that call (Undefined when omitted)
    result,      \* what the last deserializeMessage call returned or threw
    message,     \* the record last passed to serializedMessageSize / serializeMessage
    returned,     \* what that call returned or threw
    op,          \* the operation performed last
    Module,      \* `let Module` of index.js: Undef until the factory's module is assigned
    fulfilled,   \* the promises fulfilled so far: ModulePromise, mod.ready, the promise
                 \* mod.ready.then returns ("then") and module.exports.isLoaded
    reactions,   \* the callbacks waiting on a promise that is still pending
    jobs,        \* the promise jobs queued, in the order they will run
    schemaText,  \* the schema text last passed to parseCBufSchema
    parsed,      \* what that call returned or threw
    calls,       \* the number of parseCBufSchema calls made
    global,      \* the ast_global a CBufParser holds after ParseMetadata
    computed,    \* what the analyses have stored on its structs
    visit        \* the last call of an analysis on a struct, and what it returned

\* What the caller of the codec functions holds.
caller == <<schemaMap, hashMap, data, offset, result, message, returned, op>>

\* The module's load state and the last parseCBufSchema call.
loading == <<Module, fulfilled, reactions, jobs>>

\* The parseCBufSchema calls.
parser == <<schemaText, parsed, calls>>

\* The AST of a parser and the analyses of its structs.
analysis == <<global, computed, visit>>

vars == <<caller, loading, parser, analysis>>

-----------------------------------------------------------------------------
(* JavaScript primitives *)

Undefined == -1

Byte == 0..255

Fail(e) == [ok |-> FALSE, err |-> e]

Min(a, b) == IF a < b THEN a ELSE b

Zeros(n) == [i \in 1..n |-> 0]

\* Number of a little-endian byte string of at most 3 bytes.
RECURSIVE LE(_)
LE(b) == IF Len(b) = 0 THEN 0 ELSE b[1] + 256 * LE(Tail(b))

\* Bits 0..7 of a byte, least significant first, and back.
Bits8(x) == [i \in 1..8 |-> (x \div (2 ^ (i - 1))) % 2]

RECURSIVE FromBits(_)
FromBits(bs) == IF Len(bs) = 0 THEN 0 ELSE bs[1] + 2 * FromBits(Tail(bs))

\* x & y and x | y on bytes.
And8(x, y) == FromBits([i \in 1..8 |-> Bits8(x)[i] * Bits8(y)[i]])
Or8(x, y) == FromBits([i \in 1..8 |-> IF Bits8(x)[i] + Bits8(y)[i] > 0 THEN 1 ELSE 0])

\* x & y and x | y on 32 bit words given as 4 little-endian bytes.
And32(x, y) == [i \in 1..4 |-> And8(x[i], y[i])]
Or32(x, y) == [i \in 1..4 |-> Or8(x[i], y[i])]

\* ToInt32(x >> 27) & 0x0f, for a word of 4 bytes: the arithmetic shift leaves
\* the top five bits, sign-extended; the mask keeps bits 27..30.
Shr27And0f(w) ==
    LET top == w[4] \div 8                              \* bits 27..31
        signed == IF w[4] >= 128 THEN top - 32 ELSE top \* sign-extended
    IN  (signed + 32) % 16

\* A uint32 as a number. Values from 2^31 on are all larger than any buffer
\* of the model and are named by the one number Huge.
Huge == 2147483647
U32(b) == IF b[4] >= 128 THEN Huge ELSE b[1] + 256 * b[2] + 65536 * b[3] + 16777216 * b[4]

\* The little-endian bytes of a number below 2^31.
U32Bytes(n) == <<n % 256, (n \div 256) % 256, (n \div 65536) % 256, (n \div 16777216) % 256>>

\* getFloat64 / getFloat32: the double a byte string decodes to, named by its
\* canonical bytes. Every NaN bit pattern reads as the one NaN value, which
\* setFloat64 / setFloat32 write back as the quiet NaN.
NaN64 == <<0, 0, 0, 0, 0, 0, 248, 127>>
NaN32 == <<0, 0, 192, 127>>

IsNaN64(b) ==
    /\ b[8] % 128 = 127
    /\ b[7] \div 16 = 15
    /\ \/ b[7] % 16 # 0
       \/ \E i \in 1..6 : b[i] # 0

IsNaN32(b) ==
    /\ b[4] % 128 = 127
    /\ b[3] \div 128 = 1
    /\ \/ b[3] % 128 # 0
       \/ b[2] # 0
       \/ b[1] # 0

Float64Of(b) == IF IsNaN64(b) THEN NaN64 ELSE b
Float32Of(b) == IF IsNaN32(b) THEN NaN32 ELSE b

-----------------------------------------------------------------------------
(* TextDecoder and TextEncoder (UTF-8), strings being sequences of UTF-16   *)
(* code units                                                              *)

Replacement == 65533   \* U+FFFD
BOM == 65279           \* U+FEFF

\* The UTF-8 decoder of the Encoding standard: st is the decoder state
\* [cp, seen, needed, lower, upper], out the code points emitted so far.
Utf8Reset == [cp |-> 0, seen |-> 0, needed |-> 0, lower |-> 128, upper |-> 191]

RECURSIVE Utf8Run(_, _, _, _)
Utf8Run(bytes, i, st, out) ==
    IF i > Len(bytes)
    THEN IF st.needed # 0 THEN Append(out, Replacement) ELSE out
    ELSE LET b == bytes[i] IN
         IF st.needed = 0
         THEN IF b < 128 THEN Utf8Run(bytes, i + 1, st, Append(out, b))
              ELSE IF b >= 194 /\ b <= 223
                   THEN Utf8Run(bytes, i + 1, [st EXCEPT !.needed = 1, !.cp = b % 32], out)
              ELSE IF b >= 224 /\ b <= 239
                   THEN Utf8Run(bytes, i + 1,
                                [st EXCEPT !.needed = 2, !.cp = b % 16,
                                           !.lower = IF b = 224 THEN 160 ELSE 128,
                                           !.upper = IF b = 237 THEN 159 ELSE 191], out)
              ELSE IF b >= 240 /\ b <= 244
                   THEN Utf8Run(bytes, i + 1,
                                [st EXCEPT !.needed = 3, !.cp = b % 8,
                                           !.lower = IF b = 240 THEN 144 ELSE 128,
                                           !.upper = IF b = 244 THEN 143 ELSE 191], out)
              ELSE Utf8Run(bytes, i + 1, st, Append(out, Replacement))
         ELSE IF b < st.lower \/ b > st.upper
              THEN \* the byte is processed again from the initial state
                   Utf8Run(bytes, i, Utf8Reset, Append(out, Replacement))
              ELSE LET cp == st.cp * 64 + (b % 64) IN
                   IF st.seen + 1 = st.needed
                   THEN Utf8Run(bytes, i + 1, Utf8Reset, Append(out, cp))
                   ELSE Utf8Run(bytes, i + 1,
                                [st EXCEPT !.cp = cp, !.seen = st.seen + 1,
                                           !.lower = 128, !.upper = 191], out)

\* UTF-16 code units of a sequence of code points.
RECURSIVE ToUtf16(_)
ToUtf16(cps) ==
    IF Len(cps) = 0 THEN <<>>
    ELSE LET c == cps[1] IN
         (IF c > 65535
          THEN <<55296 + ((c - 65536) \div 1024), 56320 + ((c - 65536) % 1024)>>
          ELSE <<c>>) \o ToUtf16(Tail(cps))

\* textDecoder.decode(bytes): a leading byte order mark is dropped.
TextDecode(bytes) ==
    LET cps == Utf8Run(bytes, 1, Utf8Reset, <<>>)
        body == IF Len(cps) > 0 /\ cps[1] = BOM THEN Tail(cps) ELSE cps
    IN  ToUtf16(body)

\* Code points of a string of UTF-16 code units; a lone surrogate becomes U+FFFD.
RECURSIVE ToCodePoints(_)
ToCodePoints(s) ==
    IF Len(s) = 0 THEN <<>>
    ELSE LET c == s[1] IN
         IF c >= 55296 /\ c <= 56319 /\ Len(s) > 1 /\ s[2] >= 56320 /\ s[2] <= 57343
         THEN <<65536 + (c - 55296) * 1024 + (s[2] - 56320)>> \o ToCodePoints(Tail(Tail(s)))
         ELSE IF c >= 55296 /\ c <= 57343
              THEN <<Replacement>> \o ToCodePoints(Tail(s))
              ELSE <<c>> \o ToCodePoints(Tail(s))

Utf8Of(c) ==
    IF c < 128 THEN <<c>>
    ELSE IF c < 2048 THEN <<192 + (c \div 64), 128 + (c % 64)>>
    ELSE IF c < 65536
         THEN <<224 + (c \div 4096), 128 + ((c \div 64) % 64), 128 + (c % 64)>>
         ELSE <<240 + (c \div 262144), 128 + ((c \div 4096) % 64),
                128 + ((c \div 64) % 64), 128 + (c % 64)>>

RECURSIVE Utf8All(_)
Utf8All(cps) == IF Len(cps) = 0 THEN <<>> ELSE Utf8Of(cps[1]) \o Utf8All(Tail(cps))

\* textEncoder.encode(string)
TextEncode(s) == Utf8All(ToCodePoints(s))

\* str.split("\0").shift(): the prefix before the first NUL code unit.
RECURSIVE UpToNul(_)
UpToNul(s) ==
    IF Len(s) = 0 \/ s[1] = 0 THEN <<>> ELSE <<s[1]>> \o UpToNul(Tail(s))

-----------------------------------------------------------------------------
(* Descriptors *)

\* A field of a message definition; an absent attribute is Undefined / FALSE.
Field(name, type) ==
    [name |-> name, type |-> type, isArray |-> FALSE, isComplex |-> FALSE,
     arrayLength |-> Undefined, arrayUpperBound |-> Undefined, upperBound |-> Undefined]

\* hashValue of the built-in definition, 0xbe6738d544ab72c6n, little-endian.
METADATA_HASH == <<198, 114, 171, 68, 213, 56, 103, 190>>

METADATA_DEFINITION ==
    [name |-> "cbufmsg::metadata",
     hashValue |-> METADATA_HASH,
     naked |-> FALSE,
     definitions |-> <<Field("msg_hash", "uint64"), Field("msg_name", "string"),
                       Field("msg_meta", "string")>>]

HEADER_SIZE == 4 + 4 + 8 + 8

\* 0x56444e54 as written by setUint32(.., true)
CBUF_MAGIC == <<84, 78, 68, 86>>

\* schemaMap.get(name) on a schema map in insertion order
SchemaHas(schema, name) == \E i \in 1..Len(schema) : schema[i].name = name
SchemaGet(schema, name) == schema[CHOOSE i \in 1..Len(schema) : schema[i].name = name]

\* hashMap.get(hash)
HashHas(hmap, hash) == hash \in DOMAIN hmap

EmptyObject == [n \in {} |-> n]

\* object[name] = value
Put(object, name, value) == (name :> value) @@ object

-----------------------------------------------------------------------------
(* DataView and typed arrays *)

\* new DataView(buffer, byteOffset, byteLength)
DataViewOk(buffer, byteOffset, byteLength) ==
    /\ byteOffset >= 0
    /\ byteLength >= 0
    /\ byteOffset + byteLength <= Len(buffer)

DataView(buffer, byteOffset, byteLength) ==
    [buffer |-> buffer, byteOffset |-> byteOffset, byteLength |-> byteLength,
     length |-> Undefined]

\* A get or set of n bytes at off is in the bounds of the view.
InView(view, off, n) == off >= 0 /\ off + n <= view.byteLength

ViewBytes(view, off, n) ==
    SubSeq(view.buffer, view.byteOffset + off + 1, view.byteOffset + off + n)

BYTES_PER_ELEMENT(type) ==
    CASE type \in {"bool", "uint8", "int8"} -> 1
      [] type \in {"uint16", "int16"} -> 2
      [] type \in {"uint32", "int32", "float32"} -> 4
      [] type \in {"uint64", "int64", "float64"} -> 8

TypedArrayConstructor(type) ==
    CASE type \in {"bool", "uint8"} -> "Uint8Array"
      [] type = "int8" -> "Int8Array"
      [] type = "uint16" -> "Uint16Array"
      [] type = "int16" -> "Int16Array"
      [] type = "uint32" -> "Uint32Array"
      [] type = "int32" -> "Int32Array"
      [] type = "uint64" -> "BigUint64Array"
      [] type = "int64" -> "BigInt64Array"
      [] type = "float32" -> "Float32Array"
      [] type = "float64" -> "Float64Array"

NumericTypes ==
    {"bool", "uint8", "int8", "uint16", "int16", "uint32", "int32", "uint64", "int64",
     "float32", "float64"}

\* a view over the buffer at any offset
typedArrayInPlace(type, buffer, off, length) ==
    LET size == BYTES_PER_ELEMENT(type) IN
    IF off > Len(buffer) \/ length > (Len(buffer) - off) \div size
    THEN Fail("RangeError")
    ELSE [ok |-> TRUE,
          value |-> [k |-> "typed",
                     ctor |-> TypedArrayConstructor(type),
                     aliased |-> TRUE,
                     byteOffset |-> off,
                     elems |-> [i \in 1..length |->
                                  SubSeq(buffer, off + (i - 1) * size + 1, off + i * size)]]]

\* typedArray(TypedArrayConstructor, buffer, offset, length): a view over the
\* buffer when the offset is aligned, else a view over a fresh copy. Either
\* constructor throws a RangeError when the elements are not all inside the
\* ArrayBuffer. The elements are kept as their bytes.
typedArray(type, buffer, off, length) ==
    LET size == BYTES_PER_ELEMENT(type) IN
    IF off > Len(buffer) \/ length > (Len(buffer) - off) \div size
    THEN Fail("RangeError")
    ELSE [ok |-> TRUE,
          value |-> [k |-> "typed",
                     ctor |-> TypedArrayConstructor(type),
                     aliased |-> off % size = 0,
                     byteOffset |-> IF off % size = 0 THEN off ELSE 0,
                     elems |-> [i \in 1..length |->
                                  SubSeq(buffer, off + (i - 1) * size + 1, off + i * size)]]]

-----------------------------------------------------------------------------
(* Deserialization *)

\* The number of bytes a basic non-string type occupies.
BasicWidth(type) == BYTES_PER_ELEMENT(type)

Signed(n, bits) == IF n >= 2 ^ (bits - 1) THEN n - 2 ^ bits ELSE n

\* The value view.getXxx(offset, true) returns for the bytes b.
BasicValue(type, b) ==
    CASE type = "bool" -> [k |-> "bool", v |-> b[1] # 0]
      [] type = "uint8" -> [k |-> "num", v |-> b[1]]
      [] type = "int8" -> [k |-> "num", v |-> Signed(b[1], 8)]
      [] type = "uint16" -> [k |-> "num", v |-> LE(b)]
      [] type = "int16" -> [k |-> "num", v |-> Signed(LE(b), 16)]
      [] type \in {"uint32", "int32", "uint64", "int64"} -> [k |-> "wide", b |-> b]
      [] type = "float32" -> [k |-> "float", b |-> Float32Of(b)]
      [] type = "float64" -> [k |-> "float", b |-> Float64Of(b)]

\* readBasicType(view, offset, message, field): the bytes consumed and the
\* message with the field set.
readBasicType(view, off, msg, field) ==
    IF field.type \in NumericTypes
    THEN LET n == BasicWidth(field.type) IN
         IF ~InView(view, off, n) THEN Fail("RangeError")
         ELSE [ok |-> TRUE, n |-> n,
               message |-> Put(msg, field.name, BasicValue(field.type, ViewBytes(view, off, n)))]
    ELSE IF field.type = "string"
    THEN IF field.upperBound = Undefined /\ ~InView(view, off, 4)
         THEN Fail("RangeError")
         ELSE LET curOffset == IF field.upperBound = Undefined THEN 4 ELSE 0
                  length == IF field.upperBound = Undefined
                            THEN U32(ViewBytes(view, off, 4))
                            ELSE field.upperBound
                  start == view.byteOffset + off + curOffset
              IN  \* new Uint8Array(view.buffer, start, length)
                  IF start < 0 \/ start > Len(view.buffer) \/ length > Len(view.buffer) - start
                  THEN Fail("RangeError")
                  ELSE LET bytes == SubSeq(view.buffer, start + 1, start + length)
                           str == TextDecode(bytes)
                       IN  [ok |-> TRUE, n |-> curOffset + length,
                            message |-> Put(msg, field.name, [k |-> "str", v |-> UpToNul(str)])]
    ELSE Fail("UnsupportedType")

RECURSIVE deserializeMessage(_, _, _, _)
RECURSIVE deserializeNakedMessage(_, _, _, _, _, _)
RECURSIVE DeserializeFields(_, _, _, _, _, _, _, _)
RECURSIVE ReadElements(_, _, _, _, _, _, _, _)
RECURSIVE readNonArrayField(_, _, _, _, _, _)

\* The header word decoded by deserializeMessage.
\* sizeAndVariant & 0x07ffffff whether or not the word has a variant
SizeOfLowBits(sizeAndVariant) == U32(And32(sizeAndVariant, <<255, 255, 255, 7>>))

HasVariant(sizeAndVariant) == And32(sizeAndVariant, <<0, 0, 0, 128>>) = <<0, 0, 0, 128>>

SizeOf(sizeAndVariant) ==
    IF HasVariant(sizeAndVariant)
    THEN U32(And32(sizeAndVariant, <<255, 255, 255, 7>>))
    ELSE U32(And32(sizeAndVariant, <<255, 255, 255, 127>>))

VariantOf(sizeAndVariant) ==
    IF HasVariant(sizeAndVariant) THEN Shr27And0f(sizeAndVariant) ELSE 0

\* The message definition for a hash value: the built-in metadata definition
\* when the hash is its hash, else the entry of the hash map.
LookupHas(hmap, hashValue) == hashValue = METADATA_HASH \/ HashHas(hmap, hashValue)

Lookup(hmap, hashValue) ==
    IF hashValue = METADATA_HASH THEN METADATA_DEFINITION ELSE hmap[hashValue]

\* a comparison of the magic that never fails
MagicUncompared(magic) == FALSE

\* magic !== 0x56444e54
MagicMismatch(magic) == magic # CBUF_MAGIC

\* deserializeMessage ending without its check
SizeUnchecked(curOffset, size, record) == record

\* The check that ends deserializeMessage.
SizeChecked(curOffset, size, record) ==
    IF curOffset # size THEN Fail("SizeMismatch") ELSE record

deserializeMessage(schema, hmap, buf, off) ==
    LET curOffset == IF off = Undefined THEN 0 ELSE off IN
    IF curOffset < 0 \/ (buf.length # Undefined /\ curOffset >= buf.length)
    THEN Fail("InvalidOffset")
    ELSE IF ~DataViewOk(buf.buffer, buf.byteOffset + curOffset, buf.byteLength - curOffset)
    THEN Fail("RangeError")
    ELSE LET view == DataView(buf.buffer, buf.byteOffset + curOffset, buf.byteLength - curOffset) IN
    IF view.byteLength < 24
    THEN Fail("BufferTooSmall")
    ELSE IF MagicMismatch(ViewBytes(view, 0, 4))
    THEN Fail("InvalidMagic")
    ELSE LET sizeAndVariant == ViewBytes(view, 4, 4)
             size == SizeOf(sizeAndVariant)
             variant == VariantOf(sizeAndVariant)
         IN
    IF size > view.byteLength
    THEN Fail("TruncatedRecord")
    ELSE LET hashValue == ViewBytes(view, 8, 8)
             timestamp == Float64Of(ViewBytes(view, 16, 8))
         IN
    IF ~LookupHas(hmap, hashValue)
    THEN Fail("UnknownHash")
    ELSE LET msgdef == Lookup(hmap, hashValue)
             body == deserializeNakedMessage(schema, hmap, msgdef, view, 24, EmptyObject)
         IN
    IF ~body.ok THEN body
    ELSE SizeChecked(24 + body.n, size,
                     [ok |-> TRUE, typeName |-> msgdef.name, size |-> size,
                      variant |-> [k |-> "num", v |-> variant],
                      hashValue |-> [k |-> "wide", b |-> hashValue],
                      timestamp |-> [k |-> "float", b |-> timestamp],
                      message |-> [k |-> "msg", v |-> body.message]])

deserializeNakedMessage(schema, hmap, msgdef, view, off, output) ==
    DeserializeFields(schema, hmap, msgdef.definitions, 1, view, off, 0, output)

\* The loop over msgdef.definitions, from field i on.
DeserializeFields(schema, hmap, defs, i, view, off, innerOffset, output) ==
    IF i > Len(defs) THEN [ok |-> TRUE, n |-> innerOffset, message |-> output]
    ELSE LET field == defs[i] IN
    IF field.isArray
    THEN IF field.arrayLength = Undefined /\ ~InView(view, off + innerOffset, 4)
         THEN Fail("RangeError")
         ELSE LET arrayLength == IF field.arrayLength = Undefined
                                 THEN U32(ViewBytes(view, off + innerOffset, 4))
                                 ELSE field.arrayLength
                  inner == IF field.arrayLength = Undefined THEN innerOffset + 4 ELSE innerOffset
                  bufferOffset == view.byteOffset + off + inner
              IN
              IF field.type \in NumericTypes
              THEN LET arr == typedArray(field.type, view.buffer, bufferOffset, arrayLength) IN
                   IF ~arr.ok THEN arr
                   ELSE DeserializeFields(schema, hmap, defs, i + 1, view, off,
                                          inner + arrayLength * BYTES_PER_ELEMENT(field.type),
                                          Put(output, field.name, arr.value))
              ELSE LET els == ReadElements(schema, hmap, field, view, off, inner,
                                           arrayLength, <<>>) IN
                   IF ~els.ok THEN els
                   ELSE DeserializeFields(schema, hmap, defs, i + 1, view, off, els.n,
                                          Put(output, field.name, [k |-> "array", v |-> els.array]))
    ELSE LET r == readNonArrayField(schema, hmap, field, view, off + innerOffset, output) IN
         IF ~r.ok THEN r
         ELSE DeserializeFields(schema, hmap, defs, i + 1, view, off, innerOffset + r.n, r.message)

\* The loop over the elements of a string or struct array, `left` to go.
ReadElements(schema, hmap, field, view, off, innerOffset, left, array) ==
    IF left = 0 THEN [ok |-> TRUE, n |-> innerOffset, array |-> array]
    ELSE LET r == readNonArrayField(schema, hmap, field, view, off + innerOffset, EmptyObject) IN
         IF ~r.ok THEN r
         ELSE ReadElements(schema, hmap, field, view, off, innerOffset + r.n, left - 1,
                           Append(array, r.message[field.name]))

\* the whole nested record, header fields included, as the field's value
NestedRecord(nestedMessage) ==
    [k |-> "msg",
     v |-> [typeName |-> [k |-> "str", v |-> <<>>],
            size |-> [k |-> "num", v |-> nestedMessage.size],
            variant |-> nestedMessage.variant,
            hashValue |-> nestedMessage.hashValue,
            timestamp |-> nestedMessage.timestamp,
            message |-> nestedMessage.message]]

\* output[field.name] = nestedMessage.message
NestedValue(nestedMessage) == nestedMessage.message

readNonArrayField(schema, hmap, field, view, off, output) ==
    IF field.isComplex
    THEN IF ~SchemaHas(schema, field.type) THEN Fail("UnknownNestedType")
         ELSE LET nestedMsgdef == SchemaGet(schema, field.type) IN
              IF nestedMsgdef.naked
              THEN LET r == deserializeNakedMessage(schema, hmap, nestedMsgdef, view, off,
                                                    EmptyObject) IN
                   IF ~r.ok THEN r
                   ELSE [ok |-> TRUE, n |-> r.n,
                         message |-> Put(output, field.name, [k |-> "msg", v |-> r.message])]
              ELSE LET nestedMessage == deserializeMessage(schema, hmap, view, off) IN
                   IF ~nestedMessage.ok THEN nestedMessage
                   ELSE [ok |-> TRUE, n |-> nestedMessage.size,
                         message |-> Put(output, field.name, NestedValue(nestedMessage))]
    ELSE readBasicType(view, off, output, field)

-----------------------------------------------------------------------------
(* Reading the properties of a value passed to the serializer *)

Undef == [k |-> "undef"]

\* message[name]; reading a property of undefined throws a TypeError.
CanRead(value) == value.k # "undef"

Prop(value, name) ==
    IF value.k = "msg" /\ name \in DOMAIN value.v THEN value.v[name] ELSE Undef

\* The element type of a typed array.
ElementType(ctor) ==
    CASE ctor = "Uint8Array" -> "uint8"
      [] ctor = "Int8Array" -> "int8"
      [] ctor = "Uint16Array" -> "uint16"
      [] ctor = "Int16Array" -> "int16"
      [] ctor = "Uint32Array" -> "uint32"
      [] ctor = "Int32Array" -> "int32"
      [] ctor = "BigUint64Array" -> "uint64"
      [] ctor = "BigInt64Array" -> "int64"
      [] ctor = "Float32Array" -> "float32"
      [] ctor = "Float64Array" -> "float64"

\* value.length of an array, a typed array or a string
LengthOf(value) ==
    CASE value.k = "array" -> Len(value.v)
      [] value.k = "typed" -> Len(value.elems)
      [] value.k = "str" -> Len(value.v)

\* value[i], i counted from 0
ElementAt(value, i) ==
    CASE value.k = "array" -> IF i < Len(value.v) THEN value.v[i + 1] ELSE Undef
      [] value.k = "typed" ->
            IF i < Len(value.elems)
            THEN BasicValue(ElementType(value.ctor), value.elems[i + 1])
            ELSE Undef
      [] value.k = "str" ->
            IF i < Len(value.v) THEN [k |-> "str", v |-> <<value.v[i + 1]>>] ELSE Undef
      [] OTHER -> Undef

\* Array.isArray(value)
IsArray(value) == value.k = "array"

IsIterable(value) == value.k \in {"array", "typed", "str"}

-----------------------------------------------------------------------------
(* serializedMessageSize *)

RECURSIVE serializedNakedMessageSize(_, _, _, _)
RECURSIVE SizeFields(_, _, _, _, _, _)

\* The array length both the sizer and the serializer use for a field that
\* has no arrayLength.
CountOf(value) == IF IsArray(value) THEN LengthOf(value) ELSE 0

\* The length both use for a string field that has no upperBound.
StringLength(value) == IF value.k = "str" THEN Len(value.v) ELSE 0

\* no header counted for a nested struct
NoHeaderSize(nestedMsgdef) == 0

\* if (nestedMsgdef.naked !== true) { size += HEADER_SIZE }
NestedHeaderSize(nestedMsgdef) == IF nestedMsgdef.naked THEN 0 ELSE HEADER_SIZE

\* The size of one field, or the error thrown.
FieldSize(schema, hmap, field, value) ==
    IF field.isArray
    THEN LET arrayLength == IF field.arrayLength = Undefined THEN CountOf(value)
                            ELSE field.arrayLength
             prefix == IF field.arrayLength = Undefined THEN 4 ELSE 0
         IN  IF field.type \in NumericTypes
             THEN [ok |-> TRUE, n |-> prefix + arrayLength * BYTES_PER_ELEMENT(field.type)]
             ELSE \* for (const element of value)
                  \*   size += serializedNakedMessageSize(schemaMap, hashMap, element)
                  \* takes `element` for the definition and iterates its
                  \* `definitions`, which no element has
                  IF ~IsIterable(value) THEN Fail("TypeError")
                  ELSE IF LengthOf(value) > 0 THEN Fail("TypeError")
                  ELSE [ok |-> TRUE, n |-> prefix]
    ELSE IF field.isComplex
    THEN IF ~SchemaHas(schema, field.type) THEN Fail("UnknownNestedType")
         ELSE LET nestedMsgdef == SchemaGet(schema, field.type)
                  nested == serializedNakedMessageSize(schema, hmap, nestedMsgdef, value)
              IN  IF ~nested.ok THEN nested
                  ELSE [ok |-> TRUE, n |-> NestedHeaderSize(nestedMsgdef) + nested.n]
    ELSE IF field.type \in NumericTypes
    THEN [ok |-> TRUE, n |-> BasicWidth(field.type)]
    ELSE IF field.type = "string"
    THEN [ok |-> TRUE,
          n |-> IF field.upperBound = Undefined THEN 4 + StringLength(value)
                ELSE field.upperBound]
    ELSE Fail("UnsupportedType")

serializedNakedMessageSize(schema, hmap, msgdef, msg) ==
    SizeFields(schema, hmap, msgdef.definitions, 1, msg, 0)

\* The loop over msgdef.definitions, from field i on.
SizeFields(schema, hmap, defs, i, msg, size) ==
    IF i > Len(defs) THEN [ok |-> TRUE, n |-> size]
    ELSE IF ~CanRead(msg) THEN Fail("TypeError")
    ELSE LET r == FieldSize(schema, hmap, defs[i], Prop(msg, defs[i].name)) IN
         IF ~r.ok THEN r
         ELSE SizeFields(schema, hmap, defs, i + 1, msg, size + r.n)

serializedMessageSize(schema, hmap, rec) ==
    IF rec.hashValue.k # "wide" THEN Fail("HashNotBigint")
    ELSE IF rec.message.k \notin {"msg", "array", "typed"} THEN Fail("MessageNotObject")
    ELSE IF ~LookupHas(hmap, rec.hashValue.b) THEN Fail("UnknownHash")
    ELSE LET msgdef == Lookup(hmap, rec.hashValue.b)
             body == serializedNakedMessageSize(schema, hmap, msgdef, rec.message)
         IN  IF ~body.ok THEN body ELSE [ok |-> TRUE, n |-> HEADER_SIZE + body.n]

-----------------------------------------------------------------------------
(* serializeMessage *)

\* an ArrayBuffer one byte longer than size
ArrayBufferOneLonger(size) == Zeros(size + 1)

\* new ArrayBuffer(size)
NewArrayBuffer(size) == Zeros(size)

\* view.setXxx(off, ..) of the bytes b on the DataView of the whole buffer:
\* a RangeError outside the buffer.
CanWrite(buffer, off, n) == off >= 0 /\ off + n <= Len(buffer)

WriteAt(buffer, off, b) ==
    [i \in 1..Len(buffer) |-> IF i > off /\ i <= off + Len(b) THEN b[i - off] ELSE buffer[i]]

\* The bytes of ToNumber(value) modulo 2^(8 n), little-endian, n <= 2.
SmallBytes(v, n) == [i \in 1..n |-> ((v % (2 ^ (8 * n))) \div (2 ^ (8 * (i - 1)))) % 256]

\* The bytes view.setXxx(off, value, true) writes for a field of a basic
\* numeric type, or the TypeError of a BigInt conversion. ToNumber takes
\* undefined to NaN, which the integer setters write as 0.
NumberBytes(type, value) ==
    LET n == BasicWidth(type) IN
    IF type \in {"uint64", "int64"}
    THEN IF value.k = "wide" /\ Len(value.b) = 8 THEN [ok |-> TRUE, b |-> value.b]
         ELSE IF value.k = "bool" THEN [ok |-> TRUE, b |-> <<IF value.v THEN 1 ELSE 0>> \o Zeros(7)]
         ELSE Fail("TypeError")
    ELSE IF type \in {"float32", "float64"}
    THEN IF value.k = "float" /\ Len(value.b) = n THEN [ok |-> TRUE, b |-> value.b]
         ELSE IF value.k = "undef" THEN [ok |-> TRUE, b |-> IF n = 4 THEN NaN32 ELSE NaN64]
         ELSE Fail("NotModelled")
    ELSE IF value.k = "num" /\ n <= 2 THEN [ok |-> TRUE, b |-> SmallBytes(value.v, n)]
    ELSE IF value.k = "num" /\ value.v >= 0 THEN [ok |-> TRUE, b |-> U32Bytes(value.v)]
    ELSE IF value.k = "wide" /\ Len(value.b) = n THEN [ok |-> TRUE, b |-> value.b]
    ELSE IF value.k = "bool" THEN [ok |-> TRUE, b |-> <<IF value.v THEN 1 ELSE 0>> \o Zeros(n - 1)]
    ELSE IF value.k = "undef" THEN [ok |-> TRUE, b |-> Zeros(n)]
    ELSE Fail("NotModelled")

\* The header word serializeMessage writes:
\*   (hasVariant ? message.variant << 27 : 0) | size
\* The shift is on 32 bits, so it keeps the low five bits of the variant.
SizeAndVariant(variant, size) ==
    IF variant.k = "undef" THEN U32Bytes(size)
    ELSE Or32(<<0, 0, 0, (variant.v % 32) * 8>>, U32Bytes(size))

RECURSIVE serializeNakedMessage(_, _, _, _, _, _)
RECURSIVE SerializeFields(_, _, _, _, _, _, _, _)
RECURSIVE SerializeElements(_, _, _, _, _, _, _, _, _)
RECURSIVE serializeNonArrayField(_, _, _, _, _, _)

\* Where serializeNonArrayField writes the body of a nested struct, given the
\* field's offset and the header bytes already written at it.
NestedBodyOffset(curOffset, innerOffset) == curOffset

\* All four return [ok, n, buffer]: the bytes written and the buffer after.
serializeNakedMessage(schema, hmap, msgdef, msg, buffer, off) ==
    SerializeFields(schema, hmap, msgdef.definitions, 1, msg, buffer, off, 0)

\* The loop over msgdef.definitions, from field i on.
SerializeFields(schema, hmap, defs, i, msg, buffer, off, innerOffset) ==
    IF i > Len(defs) THEN [ok |-> TRUE, n |-> innerOffset, buffer |-> buffer]
    ELSE IF ~CanRead(msg) THEN Fail("TypeError")
    ELSE LET field == defs[i]
             value == Prop(msg, field.name)
         IN
    IF field.isArray
    THEN IF field.arrayLength = Undefined /\ ~CanWrite(buffer, off + innerOffset, 4)
         THEN Fail("RangeError")
         ELSE LET arrayLength == IF field.arrayLength = Undefined THEN CountOf(value)
                                 ELSE field.arrayLength
                  counted == IF field.arrayLength = Undefined
                             THEN WriteAt(buffer, off + innerOffset, U32Bytes(arrayLength))
                             ELSE buffer
                  inner == IF field.arrayLength = Undefined THEN innerOffset + 4 ELSE innerOffset
                  r == SerializeElements(schema, hmap, field, value, counted, off, inner,
                                         0, arrayLength)
              IN  IF ~r.ok THEN r
                  ELSE SerializeFields(schema, hmap, defs, i + 1, msg, r.buffer, off, r.n)
    ELSE LET r == serializeNonArrayField(schema, hmap, field, value, buffer, off + innerOffset) IN
         IF ~r.ok THEN r
         ELSE SerializeFields(schema, hmap, defs, i + 1, msg, r.buffer, off, innerOffset + r.n)

\* for (let i = 0; i < arrayLength; i++) serializeNonArrayField(.., value[i], ..)
SerializeElements(schema, hmap, field, value, buffer, off, innerOffset, i, arrayLength) ==
    IF i >= arrayLength THEN [ok |-> TRUE, n |-> innerOffset, buffer |-> buffer]
    ELSE IF ~CanRead(value) THEN Fail("TypeError")
    ELSE LET r == serializeNonArrayField(schema, hmap, field, ElementAt(value, i), buffer,
                                         off + innerOffset) IN
         IF ~r.ok THEN r
         ELSE SerializeElements(schema, hmap, field, value, r.buffer, off, innerOffset + r.n,
                                i + 1, arrayLength)

serializeNonArrayField(schema, hmap, field, value, buffer, curOffset) ==
    IF field.isComplex
    THEN IF ~SchemaHas(schema, field.type) THEN Fail("UnknownNestedType")
         ELSE LET nestedMsgdef == SchemaGet(schema, field.type) IN
              IF nestedMsgdef.naked
              THEN serializeNakedMessage(schema, hmap, nestedMsgdef, value, buffer,
                                         NestedBodyOffset(curOffset, 0))
              ELSE LET nestedSize == serializedNakedMessageSize(schema, hmap, nestedMsgdef, value) IN
                   IF ~nestedSize.ok THEN nestedSize
                   ELSE IF ~CanWrite(buffer, curOffset, HEADER_SIZE) THEN Fail("RangeError")
                   ELSE LET header == CBUF_MAGIC \o U32Bytes(HEADER_SIZE + nestedSize.n)
                                        \o nestedMsgdef.hashValue \o Zeros(8)
                            r == serializeNakedMessage(schema, hmap, nestedMsgdef, value,
                                                       WriteAt(buffer, curOffset, header),
                                                       NestedBodyOffset(curOffset, HEADER_SIZE))
                        IN  IF ~r.ok THEN r
                            ELSE [ok |-> TRUE, n |-> HEADER_SIZE + r.n, buffer |-> r.buffer]
    ELSE IF field.type \in NumericTypes
    THEN LET b == NumberBytes(field.type, value) IN
         IF ~b.ok THEN b
         ELSE IF ~CanWrite(buffer, curOffset, Len(b.b)) THEN Fail("RangeError")
         ELSE [ok |-> TRUE, n |-> Len(b.b), buffer |-> WriteAt(buffer, curOffset, b.b)]
    ELSE IF field.type = "string"
    THEN IF field.upperBound = Undefined /\ ~CanWrite(buffer, curOffset, 4)
         THEN Fail("RangeError")
         ELSE LET length == IF field.upperBound = Undefined THEN StringLength(value)
                            ELSE field.upperBound
                  prefixed == IF field.upperBound = Undefined
                              THEN WriteAt(buffer, curOffset, U32Bytes(length))
                              ELSE buffer
                  innerOffset == IF field.upperBound = Undefined THEN 4 ELSE 0
              IN  \* if (value) { new Uint8Array(view.buffer, byteOffset, length).set(bytes) }
                  IF value.k = "str" /\ Len(value.v) > 0
                  THEN LET bytes == TextEncode(value.v) IN
                       IF ~CanWrite(buffer, curOffset + innerOffset, length)
                          \/ Len(bytes) > length
                       THEN Fail("RangeError")
                       ELSE [ok |-> TRUE, n |-> innerOffset + length,
                             buffer |-> WriteAt(prefixed, curOffset + innerOffset, bytes)]
                  ELSE IF value.k \in {"str", "undef"}
                  THEN [ok |-> TRUE, n |-> innerOffset + length, buffer |-> prefixed]
                  ELSE Fail("NotModelled")
    ELSE Fail("UnsupportedType")

serializeMessage(schema, hmap, rec) ==
    IF rec.hashValue.k # "wide" \/ ~LookupHas(hmap, rec.hashValue.b)
    THEN Fail("UnknownHash")
    ELSE LET msgdef == Lookup(hmap, rec.hashValue.b)
             size == serializedMessageSize(schema, hmap, rec)
         IN
    IF ~size.ok THEN size
    ELSE LET header == CBUF_MAGIC \o SizeAndVariant(rec.variant, size.n)
                         \o rec.hashValue.b
                         \o (IF rec.timestamp.k = "float" THEN rec.timestamp.b ELSE NaN64)
             buffer == WriteAt(NewArrayBuffer(size.n), 0, header)
             body == serializeNakedMessage(schema, hmap, msgdef, rec.message, buffer, HEADER_SIZE)
         IN
    IF ~body.ok THEN body ELSE [ok |-> TRUE, buffer |-> body.buffer]

-----------------------------------------------------------------------------
(* schemaMapToHashMap *)

\* hashMap.set(definition.hashValue, definition)
HashSet(hmap, definition) == (definition.hashValue :> definition) @@ hmap

EmptyMap == [h \in {} |-> h]

\* for (const definition of schemaMap.values()) hashMap.set(..), from entry i on
RECURSIVE HashAll(_, _, _)
HashAll(schema, i, hmap) ==
    IF i > Len(schema) THEN hmap
    ELSE HashAll(schema, i + 1, HashSet(hmap, schema[i]))

schemaMapToHashMap(schema) == HashAll(schema, 1, EmptyMap)

-----------------------------------------------------------------------------
(* The callers' inputs: schema maps *)

MaxCount == 2    \* the largest element count on the wire of a generated array
MaxStr == 2      \* the largest byte length of a generated string

Hash(n) == <<n, 0, 0, 0, 0, 0, 0, 0>>

Struct(name, hash, naked, definitions) ==
    [name |-> name, hashValue |-> hash, naked |-> naked, definitions |-> definitions]

Complex(name, type) == [Field(name, type) EXCEPT !.isComplex = TRUE]
FixedArray(f, n) == [f EXCEPT !.isArray = TRUE, !.arrayLength = n]
CompactArray(f, n) == [f EXCEPT !.isArray = TRUE, !.arrayUpperBound = n]
DynamicArray(f) == [f EXCEPT !.isArray = TRUE]
ShortString(name) == [Field(name, "string") EXCEPT !.upperBound = 16]

\* messages::foo and messages::bar of the test "reads a message with a nested
\* naked struct"
NakedNest ==
    <<Struct("messages::foo", Hash(0), TRUE, <<Field("x", "uint8")>>),
      Struct("messages::bar", Hash(1), FALSE, <<Complex("foo", "messages::foo")>>)>>

\* a struct nested with its own header
FramedNest ==
    <<Struct("inner", Hash(2), FALSE, <<Field("x", "uint8")>>),
      Struct("outer", Hash(3), FALSE, <<Complex("in", "inner"), Field("y", "int16")>>)>>

Arrays ==
    <<Struct("compact", Hash(4), FALSE,
             <<CompactArray(Field("c", "uint8"), 1), Field("y", "uint8")>>),
      Struct("dynamic", Hash(5), FALSE,
             <<Field("b", "bool"), DynamicArray(Field("d", "uint16"))>>),
      Struct("fixed", Hash(6), FALSE,
             <<FixedArray(Field("e", "float32"), 2)>>)>>

Strings ==
    <<Struct("strs", Hash(7), FALSE, <<Field("s", "string"), ShortString("t")>>)>>

Lists ==
    <<Struct("item", Hash(8), TRUE, <<Field("x", "int8")>>),
      Struct("names", Hash(9), FALSE, <<DynamicArray(Field("names", "string"))>>),
      Struct("items", Hash(10), FALSE, <<FixedArray(Complex("items", "item"), 2)>>)>>

Prims ==
    <<Struct("ints", Hash(11), FALSE,
             <<Field("b", "bool"), Field("u", "uint16"), Field("w", "int32"),
               Field("q", "uint64")>>),
      Struct("floats", Hash(12), FALSE,
             <<Field("f", "float32"), Field("d", "float64")>>)>>

\* a hand-built definition that carries the hash of the built-in one, and two
\* definitions that share a hash
Shadow ==
    <<Struct("other::meta", METADATA_HASH, FALSE, <<Field("x", "uint8")>>),
      Struct("twin::a", Hash(13), FALSE, <<Field("x", "uint8")>>),
      Struct("twin::b", Hash(13), FALSE, <<Field("y", "uint16")>>)>>

\* a short string inside a struct nested with its own header
Labels ==
    <<Struct("label", Hash(14), FALSE, <<ShortString("t")>>),
      Struct("tagged", Hash(15), FALSE, <<Complex("l", "label")>>)>>

\* two framed structs of different shapes, and a struct with a field of one
\* of them
Crossed ==
    <<Struct("left", Hash(16), FALSE, <<Field("x", "uint8")>>),
      Struct("right", Hash(17), FALSE, <<Field("y", "uint16")>>),
      Struct("holder", Hash(18), FALSE, <<Complex("l", "left")>>)>>

Schemas ==
    {<<>>, NakedNest, FramedNest, Arrays, Strings, Lists, Prims, Shadow, Labels, Crossed}

-----------------------------------------------------------------------------
(* The callers' inputs: buffers *)

Ones(n) == [i \in 1..n |-> 255]
One(n) == <<1>> \o Zeros(n - 1)

\* 1.0 as a double
TimestampOne == <<0, 0, 0, 0, 0, 0, 240, 63>>

\* Wire bytes of a basic numeric value: 0 (for the narrow types), 1 and all
\* bits set (-1, true, a NaN that is not the quiet NaN).
NumSamples(n) == IF n <= 2 THEN {Zeros(n), One(n), Ones(n)} ELSE {One(n), Ones(n)}

\* Wire bytes of string contents: empty, ASCII, with a NUL inside, a two-byte
\* character, a byte that is no UTF-8, a byte order mark.
StrSamples ==
    {s \in {<<>>, <<65>>, <<65, 0>>, <<195, 169>>, <<255>>, <<65, 0, 66>>, <<239, 187, 191>>} :
        Len(s) <= MaxStr}

\* The 16 bytes of a short string: empty, padded, with bytes after the NUL,
\* and without any NUL.
ShortSamples(n) ==
    {Zeros(n), <<65>> \o Zeros(n - 1), <<65, 0, 66>> \o Zeros(n - 3), [i \in 1..n |-> 65]}

\* The header word for a size, with the variant bit and a variant or without.
SizeWord(size, variant) ==
    IF variant = Undefined THEN U32Bytes(size)
    ELSE Or32(<<0, 0, 0, 128 + variant * 8>>, U32Bytes(size))

Frame(magic, word, hash, timestamp, payload) ==
    magic \o word \o hash \o timestamp \o payload

RECURSIVE Wires(_, _)
RECURSIVE ElemWires(_, _, _)
RECURSIVE Repeat(_, _)

\* All concatenations of c members of S.
Repeat(S, c) == IF c = 0 THEN {<<>>} ELSE {a \o b : a \in S, b \in Repeat(S, c - 1)}

\* Wire forms of one element of a field; inArray selects the smaller sample.
ElemWires(schema, f, inArray) ==
    IF f.isComplex
    THEN LET d == SchemaGet(schema, f.type)
             bodies == Wires(schema, d.definitions)
         IN  IF d.naked THEN bodies
             ELSE UNION {{Frame(CBUF_MAGIC, SizeWord(HEADER_SIZE + Len(p), Undefined),
                                d.hashValue, Zeros(8), p),
                          Frame(CBUF_MAGIC, SizeWord(HEADER_SIZE + Len(p), 1),
                                d.hashValue, Zeros(8), p),
                          Frame(CBUF_MAGIC, SizeWord(HEADER_SIZE + Len(p), Undefined),
                                d.hashValue, TimestampOne, p)} : p \in bodies}
    ELSE IF f.type = "string"
    THEN IF f.upperBound # Undefined
         THEN IF inArray THEN {Zeros(f.upperBound)} ELSE ShortSamples(f.upperBound)
         ELSE {U32Bytes(Len(s)) \o s :
                 s \in IF inArray THEN {t \in StrSamples : Len(t) = 0 \/ t = <<65>>}
                       ELSE StrSamples}
    ELSE IF inArray THEN {One(BasicWidth(f.type)), Ones(BasicWidth(f.type))}
         ELSE NumSamples(BasicWidth(f.type))

\* Wire forms of the fields defs of a struct.
Wires(schema, defs) ==
    IF Len(defs) = 0 THEN {<<>>}
    ELSE LET f == Head(defs)
             first == IF ~f.isArray THEN ElemWires(schema, f, FALSE)
                      ELSE IF f.arrayLength # Undefined
                           THEN Repeat(ElemWires(schema, f, TRUE), f.arrayLength)
                           ELSE UNION {{U32Bytes(c) \o b :
                                          b \in Repeat(ElemWires(schema, f, TRUE), c)} :
                                       c \in 0..MaxCount}
         IN  {a \o b : a \in first, b \in Wires(schema, Tail(defs))}

\* The definitions a caller of this schema sends records of.
Targets(schema) ==
    {schema[i] : i \in {j \in 1..Len(schema) : ~schema[j].naked}}
        \cup (IF Len(schema) = 0 \/ schema = Shadow THEN {METADATA_DEFINITION} ELSE {})

\* Size words and timestamps of a header: without and with a variant; the
\* timestamps 0.0, 1.0 and a NaN that is not the quiet NaN.
HeaderSamples ==
    {<<Undefined, Zeros(8)>>, <<Undefined, TimestampOne>>, <<Undefined, Ones(8)>>,
     <<0, Zeros(8)>>, <<1, Zeros(8)>>, <<15, TimestampOne>>}

CommonHeaders == {<<Undefined, Zeros(8)>>, <<1, TimestampOne>>}

\* One of the shortest members of a set of byte sequences.
Shortest(S) == {CHOOSE q \in S : \A r \in S : Len(q) <= Len(r)}

\* Well-formed records of the schema: every payload under the common headers.
GoodFrames(schema) ==
    UNION {{Frame(CBUF_MAGIC, SizeWord(HEADER_SIZE + Len(p), h[1]), d.hashValue, h[2], p) :
              p \in Wires(schema, d.definitions), h \in CommonHeaders} : d \in Targets(schema)}

\* Well-formed records with a shortest payload, under every header.
ShortFrames(schema) ==
    UNION {{Frame(CBUF_MAGIC, SizeWord(HEADER_SIZE + Len(p), h[1]), d.hashValue, h[2], p) :
              p \in Shortest(Wires(schema, d.definitions)), h \in HeaderSamples} :
           d \in Targets(schema)}

\* Records with something wrong: the magic, the declared size, a missing last
\* byte, a hash no definition has, size bits above bit 23 set without and with
\* the variant bit; and a buffer too short for a header.
BadFrames(schema) ==
    UNION {UNION {{Frame(<<84, 78, 68, 87>>, SizeWord(HEADER_SIZE + Len(p), Undefined),
                         d.hashValue, Zeros(8), p),
                   Frame(<<84, 78, 68, 87>>, SizeWord(HEADER_SIZE + Len(p) + 2, 1),
                         Hash(99), Zeros(8), p),
                   Frame(CBUF_MAGIC, SizeWord(HEADER_SIZE + Len(p) + 1, Undefined),
                         d.hashValue, Zeros(8), p),
                   Frame(CBUF_MAGIC, SizeWord(HEADER_SIZE + Len(p) + 1, 1),
                         Hash(99), Zeros(8), p),
                   Frame(CBUF_MAGIC, SizeWord(HEADER_SIZE + Len(p) + 1, Undefined),
                         d.hashValue, Zeros(8), p \o <<0>>),
                   Frame(CBUF_MAGIC, SizeWord(HEADER_SIZE + Len(p) - 1, 1),
                         d.hashValue, Zeros(8), p),
                   Frame(CBUF_MAGIC, SizeWord(HEADER_SIZE + Len(p), 1),
                         Hash(99), Zeros(8), p),
                   Frame(CBUF_MAGIC, <<HEADER_SIZE + Len(p), 0, 0, 120>>,
                         d.hashValue, Zeros(8), p),
                   Frame(CBUF_MAGIC, <<HEADER_SIZE + Len(p), 0, 0, 255>>,
                         d.hashValue, Zeros(8), p),
                   SubSeq(Frame(CBUF_MAGIC, SizeWord(HEADER_SIZE + Len(p), Undefined),
                                d.hashValue, Zeros(8), p), 1, HEADER_SIZE - 1)} :
                  p \in Shortest(Wires(schema, d.definitions))} :
           d \in Targets(schema)}

\* Records whose first field is declared of one framed struct and holds the
\* well-formed record of another one: a third definition of the schema.
CrossFrames(schema) ==
    LET Holders == {d \in Targets(schema) :
                      /\ Len(d.definitions) > 0
                      /\ d.definitions[1].isComplex /\ ~d.definitions[1].isArray
                      /\ SchemaHas(schema, d.definitions[1].type)
                      /\ ~SchemaGet(schema, d.definitions[1].type).naked}
        Others(d) == {e \in Targets(schema) :
                        e.name \notin {d.name, d.definitions[1].type, "cbufmsg::metadata"}}
        Nested(e) == {Frame(CBUF_MAGIC, SizeWord(HEADER_SIZE + Len(p), Undefined),
                            e.hashValue, Zeros(8), p) : p \in Wires(schema, e.definitions)}
    IN  UNION {UNION {{Frame(CBUF_MAGIC, SizeWord(HEADER_SIZE + Len(n) + Len(rest), Undefined),
                             d.hashValue, Zeros(8), n \o rest) :
                         n \in Nested(e), rest \in Wires(schema, Tail(d.definitions))} :
                      e \in Others(d)} : d \in Holders}

\* A Uint8Array over bytes byteOffset .. byteOffset + byteLength - 1 of buffer,
\* or a DataView over the same bytes.
Uint8Array(buffer, byteOffset, byteLength) ==
    [buffer |-> buffer, byteOffset |-> byteOffset, byteLength |-> byteLength,
     length |-> byteLength]

\* The ways a caller hands a record to deserializeMessage: alone in its
\* buffer, inside a stream at an offset, through a view into a larger buffer,
\* through a DataView.
Calls(frame) ==
    {<<Uint8Array(frame, 0, Len(frame)), Undefined>>,
     <<Uint8Array(<<0>> \o frame \o <<0, 0>>, 0, Len(frame) + 3), 1>>}

ViewCalls(frame) ==
    {<<Uint8Array(frame, 0, Len(frame)), 0>>,
     <<Uint8Array(<<0>> \o frame \o <<0, 0>>, 1, Len(frame)), Undefined>>,
     <<DataView(frame, 0, Len(frame)), 0>>}

\* Calls with an offset that is negative, at or past the end of the view, or
\* that leaves less than a header.
BadCalls(frame) ==
    {<<Uint8Array(frame, 0, Len(frame)), 0 - 1>>,
     <<Uint8Array(frame, 0, Len(frame)), Len(frame)>>,
     <<Uint8Array(frame, 0, Len(frame)), Len(frame) + 1>>,
     <<Uint8Array(frame, 0, Len(frame)), Len(frame) - 23>>,
     <<DataView(frame, 0, Len(frame)), 0 - 1>>,
     <<DataView(frame, 0, Len(frame)), Len(frame)>>,
     <<DataView(frame, 0, Len(frame)), Len(frame) + 1>>}

\* The (data, offset) arguments of the calls made under a schema: every
\* well-formed record, and every record with a nested record of another type,
\* alone and inside a stream; the short and the malformed records in every
\* way.
Inputs(schema) ==
    UNION {Calls(f) : f \in GoodFrames(schema) \cup CrossFrames(schema)}
        \cup UNION {Calls(f) \cup ViewCalls(f) \cup BadCalls(f) :
                      f \in ShortFrames(schema) \cup BadFrames(schema)}

-----------------------------------------------------------------------------
(* The schema parser: the AST of a schema text, the symbol table, the hashes *)
(* of the structs and the descriptor table                                   *)

\* The name of the namespace of the items outside every namespace block.
GLOBAL_NAMESPACE == "__global_namespace"

\* nullptr where the AST holds a name
Null == "nullptr"

\* ast_element: `type name;` of a primitive type, or `custom_name name;` and
\* `namespace_name::custom_name name;` with type TYPE_CUSTOM; init_value is
\* the default value `= EXPR` of the element, Null without one.
Element(type, name, custom_name, namespace_name) ==
    [type |-> type, name |-> name, custom_name |-> custom_name,
     namespace_name |-> namespace_name, array_suffix |-> Undefined,
     is_dynamic_array |-> FALSE, is_compact_array |-> FALSE, init_value |-> Null]

\* ast_struct; `space` is the name of the namespace the struct is in.
AstStruct(space, name, naked, elements) ==
    [space |-> space, name |-> name, naked |-> naked, elements |-> elements]

\* ast_namespace
Namespace(name, structs, enums) == [name |-> name, structs |-> structs, enums |-> enums]

\* The bytes of the strings the hashed texts are made of.
Ascii(str) ==
    CASE str = "struct " -> <<115, 116, 114, 117, 99, 116, 32>>
      [] str = "::" -> <<58, 58>>
      [] str = " " -> <<32>>
      [] str = ";" -> <<59>>
      [] str = "\n" -> <<10>>
      [] str = "[" -> <<91>>
      [] str = "] " -> <<93, 32>>
      [] str = "uint8_t" -> <<117, 105, 110, 116, 56, 95, 116>>
      [] str = "uint16_t" -> <<117, 105, 110, 116, 49, 54, 95, 116>>
      [] str = "uint32_t" -> <<117, 105, 110, 116, 51, 50, 95, 116>>
      [] str = "uint64_t" -> <<117, 105, 110, 116, 54, 52, 95, 116>>
      [] str = "int8_t" -> <<105, 110, 116, 56, 95, 116>>
      [] str = "int16_t" -> <<105, 110, 116, 49, 54, 95, 116>>
      [] str = "int32_t" -> <<105, 110, 116, 51, 50, 95, 116>>
      [] str = "int64_t" -> <<105, 110, 116, 54, 52, 95, 116>>
      [] str = "float" -> <<102, 108, 111, 97, 116>>
      [] str = "double" -> <<100, 111, 117, 98, 108, 101>>
      [] str = "std::string" -> <<115, 116, 100, 58, 58, 115, 116, 114, 105, 110, 103>>
      [] str = "VString<15>" -> <<86, 83, 116, 114, 105, 110, 103, 60, 49, 53, 62>>
      [] str = "bool" -> <<98, 111, 111, 108>>
      [] str = "GlobalStruct" -> <<71, 108, 111, 98, 97, 108, 83, 116, 114, 117, 99, 116>>
      [] str = "LocalStruct" -> <<76, 111, 99, 97, 108, 83, 116, 114, 117, 99, 116>>
      [] str = "LocalEnum" -> <<76, 111, 99, 97, 108, 69, 110, 117, 109>>
      [] str = "Missing" -> <<77, 105, 115, 115, 105, 110, 103>>
      [] str = "messages" -> <<109, 101, 115, 115, 97, 103, 101, 115>>
      [] str = "other" -> <<111, 116, 104, 101, 114>>
      [] str = "test" -> <<116, 101, 115, 116>>
      [] str = "pair" -> <<112, 97, 105, 114>>
      [] str = "a" -> <<97>>
      [] str = "b" -> <<98>>
      [] str = "r" -> <<114>>
      [] str = "s" -> <<115>>
      [] str = "u" -> <<117>>
      [] str = "x" -> <<120>>
      [] str = "4" -> <<52>>

\* ElementTypeToStrC[elem->type]
ElementTypeToStrC(type) ==
    CASE type = "TYPE_U8" -> "uint8_t"
      [] type = "TYPE_U16" -> "uint16_t"
      [] type = "TYPE_U32" -> "uint32_t"
      [] type = "TYPE_U64" -> "uint64_t"
      [] type = "TYPE_S8" -> "int8_t"
      [] type = "TYPE_S16" -> "int16_t"
      [] type = "TYPE_S32" -> "int32_t"
      [] type = "TYPE_S64" -> "int64_t"
      [] type = "TYPE_F32" -> "float"
      [] type = "TYPE_F64" -> "double"
      [] type = "TYPE_STRING" -> "std::string"
      [] type = "TYPE_SHORT_STRING" -> "VString<15>"
      [] type = "TYPE_BOOL" -> "bool"

\* printf's %llu
Decimal(n) ==
    LET RECURSIVE Digits(_)
        Digits(m) == IF m < 10 THEN <<48 + m>> ELSE Digits(m \div 10) \o <<48 + (m % 10)>>
    IN  Digits(n)

\* printf's PRIX64 of the uint64 with the little-endian bytes b: upper-case
\* hexadecimal digits without leading zeros.
UpperHex(b) ==
    LET Digit(d) == IF d < 10 THEN 48 + d ELSE 55 + d
        RECURSIVE All(_)
        All(i) == IF i = 0 THEN <<>>
                  ELSE <<Digit(b[i] \div 16), Digit(b[i] % 16)>> \o All(i - 1)
        RECURSIVE Strip(_)
        Strip(s) == IF Len(s) > 1 /\ Head(s) = 48 THEN Strip(Tail(s)) ELSE s
    IN  Strip(All(Len(b)))

\* the hash in 16 bits
hash16(str) ==
    LET RECURSIVE Run(_, _)
        Run(i, h) == IF i > Len(str) \/ str[i] = 0 THEN h
                     ELSE LET next == (h * 33 + str[i]) % 65536 IN
                          IF next >= 0 THEN Run(i + 1, next) ELSE next
        Bytes(n) == <<n % 256, n \div 256, 0, 0, 0, 0, 0, 0>>
    IN  Bytes(Run(1, 5381))

\* uint64_t hash(const unsigned char* str): hash = ((hash << 5) + hash) + c
\* for each byte c up to the first NUL, starting from 5381, in 64 bits; the
\* value as its 8 little-endian bytes.
hash(str) ==
    LET Times33Plus(h, c) ==
            LET t1 == h[1] * 33 + c
                t2 == h[2] * 33 + (t1 \div 256)
                t3 == h[3] * 33 + (t2 \div 256)
                t4 == h[4] * 33 + (t3 \div 256)
                t5 == h[5] * 33 + (t4 \div 256)
                t6 == h[6] * 33 + (t5 \div 256)
                t7 == h[7] * 33 + (t6 \div 256)
                t8 == h[8] * 33 + (t7 \div 256)
            IN  <<t1 % 256, t2 % 256, t3 % 256, t4 % 256, t5 % 256, t6 % 256, t7 % 256,
                  t8 % 256>>
        end == IF \E i \in 1..Len(str) : str[i] = 0
               THEN (CHOOSE i \in 1..Len(str) : str[i] = 0 /\ \A j \in 1..(i - 1) : str[j] # 0) - 1
               ELSE Len(str)
        \* the hash h after the bytes from..to: after the first half of them,
        \* which is computed first, and then the second half
        RECURSIVE Run(_, _, _)
        Run(from, to, h) ==
            IF from > to THEN h
            ELSE IF from = to THEN Times33Plus(h, str[from])
            ELSE LET half == Run(from, (from + to) \div 2, h) IN
                 IF Len(half) = 8 THEN Run((from + to) \div 2 + 1, to, half) ELSE half
    IN  Run(1, end, <<5, 21, 0, 0, 0, 0, 0, 0>>)

\* The namespaces of an AST: the global one and ast->spaces.
Spaces(ast) == <<ast.global_space>> \o ast.spaces

\* SymbolTable::find_struct(elem) and find_enum(elem) for an element of a
\* struct of the namespace `space`: in namespace_name when the reference is
\* qualified, else in `space` and then in the global namespace.  The set of
\* the struct or enum found: empty for a null pointer.
Find(ast, elem, space, enums) ==
    LET Named(items, name) ==
            IF enums THEN {items[i] : i \in {j \in 1..Len(items) : items[j] = name}}
            ELSE {items[i] : i \in {j \in 1..Len(items) : items[j].name = name}}
        In(ns) ==
            UNION {Named(IF enums THEN Spaces(ast)[i].enums ELSE Spaces(ast)[i].structs,
                         elem.custom_name) :
                     i \in {j \in 1..Len(Spaces(ast)) : Spaces(ast)[j].name = ns}}
    IN  IF elem.namespace_name # Null THEN In(elem.namespace_name)
        ELSE IF In(space) # {} THEN In(space)
        ELSE In(GLOBAL_NAMESPACE)

find_struct(ast, elem, space) == Find(ast, elem, space, FALSE)

find_enum(ast, elem, space) == Find(ast, elem, space, TRUE)

\* The key of a struct in the record of the hashes computed so far
\* (st->hash_computed, st->hash_value).
HashKey(st) == st.space \o "::" \o st.name

\* The calls the stack holds, one inside the other, before it is exhausted.
MaxDepth == 6

\* A recursion that the stack has no room for: the call never returns.
Overflow == Fail("stack overflow")

\* the line of an element with its default value
PrimitiveLineWithDefault(elem) ==
    Ascii(ElementTypeToStrC(elem.type)) \o Ascii(" ") \o Ascii(elem.name)
        \o (IF elem.init_value = Null THEN <<>> ELSE Ascii(elem.init_value))
        \o Ascii(";") \o Ascii(" ") \o Ascii("\n")

\* buf.print("%s %s; \n", ElementTypeToStrC[elem->type], elem->name)
PrimitiveLine(elem) ==
    Ascii(ElementTypeToStrC(elem.type)) \o Ascii(" ") \o Ascii(elem.name)
        \o Ascii(";") \o Ascii(" ") \o Ascii("\n")

\* buf.print("struct "); the namespace and "::" unless it is the global one;
\* buf.print("%s \n", st->name)
StructLine(st) ==
    Ascii("struct ")
        \o (IF st.space # GLOBAL_NAMESPACE THEN Ascii(st.space) \o Ascii("::") ELSE <<>>)
        \o Ascii(st.name) \o Ascii(" ") \o Ascii("\n")

RECURSIVE ComputeHash(_, _, _, _)
RECURSIVE HashElement(_, _, _, _, _, _)
RECURSIVE HashElements(_, _, _, _, _, _)

\* bool ComputeHash(ast_struct* st, SymbolTable* symtable, Interp* interp),
\* called at the call depth `depth`: [ok, hashes], hashes with the hash of st
\* and of the structs it nests.
ComputeHash(ast, st, hashes, depth) ==
    IF depth > MaxDepth THEN Overflow
    ELSE IF HashKey(st) \in DOMAIN hashes THEN [ok |-> TRUE, hashes |-> hashes]
    ELSE LET Hashed(r) ==
                 IF ~r.ok THEN r
                 ELSE [ok |-> TRUE, hashes |-> Put(r.hashes, HashKey(st), hash(r.buf))]
         IN  Hashed(HashElements(ast, st, 1, StructLine(st), hashes, depth))

\* One turn of the loop over st->elements: the line of elem appended to buf,
\* [ok, buf, hashes]; for a struct-typed element the line holds the hash of
\* the struct, computed first.
HashElement(ast, st, elem, buf, hashes, depth) ==
    LET Sized(sized) ==
            IF elem.type # "TYPE_CUSTOM"
            THEN [ok |-> TRUE, buf |-> sized \o PrimitiveLine(elem), hashes |-> hashes]
            ELSE IF find_enum(ast, elem, st.space) # {}
            THEN [ok |-> TRUE,
                  buf |-> sized \o Ascii(elem.custom_name) \o Ascii(" ")
                                \o Ascii(elem.name) \o Ascii(";") \o Ascii("\n"),
                  hashes |-> hashes]
            ELSE IF find_struct(ast, elem, st.space) = {}
            THEN Fail("Could not find element in the symbol table for hashing")
            ELSE LET Inner(inner_st, bret) ==
                         IF ~bret.ok THEN bret
                         ELSE [ok |-> TRUE,
                               buf |-> sized \o UpperHex(bret.hashes[HashKey(inner_st)])
                                             \o Ascii(" ") \o Ascii(elem.name) \o Ascii(";")
                                             \o Ascii("\n"),
                               hashes |-> bret.hashes]
                     Nested(inner_st) ==
                         Inner(inner_st, ComputeHash(ast, inner_st, hashes, depth + 1))
                 IN  Nested(CHOOSE found \in find_struct(ast, elem, st.space) : TRUE)
    IN  Sized(IF elem.array_suffix # Undefined
              THEN buf \o Ascii("[") \o Decimal(elem.array_suffix) \o Ascii("] ")
              ELSE buf)

\* The loop over st->elements, from element i on: [ok, buf, hashes].
HashElements(ast, st, i, buf, hashes, depth) ==
    IF i > Len(st.elements) THEN [ok |-> TRUE, buf |-> buf, hashes |-> hashes]
    ELSE LET Rest(r) == IF ~r.ok THEN r
                        ELSE HashElements(ast, st, i + 1, r.buf, r.hashes, depth)
         IN  Rest(HashElement(ast, st, st.elements[i], buf, hashes, depth))

\* bool SchemaParser::computeHashes(ast_global* ast): the structs of the
\* global namespace, then those of each namespace, in order.
computeHashes(ast) ==
    LET RECURSIVE Structs(_)
        Structs(spaces) == IF Len(spaces) = 0 THEN <<>>
                           ELSE Head(spaces).structs \o Structs(Tail(spaces))
        RECURSIVE All(_, _)
        All(structs, hashes) ==
            IF Len(structs) = 0 THEN [ok |-> TRUE, hashes |-> hashes]
            ELSE LET Rest(r) == IF r = Overflow THEN r
                                ELSE IF ~r.ok THEN Fail("Could not compute hash")
                                ELSE All(Tail(structs), r.hashes)
                 IN  Rest(ComputeHash(ast, Head(structs), hashes, 1))
    IN  All(Structs(Spaces(ast)), EmptyObject)

\* std::string SchemaParser::TypeName(elem, symtable) for an element of a
\* struct of the namespace `space` (elem->enclosing_struct->space->name).
TypeName(ast, elem, space) ==
    CASE elem.type = "TYPE_U8" -> "uint8"
      [] elem.type = "TYPE_U16" -> "uint16"
      [] elem.type = "TYPE_U32" -> "uint32"
      [] elem.type = "TYPE_U64" -> "uint64"
      [] elem.type = "TYPE_S8" -> "int8"
      [] elem.type = "TYPE_S16" -> "int16"
      [] elem.type = "TYPE_S32" -> "int32"
      [] elem.type = "TYPE_S64" -> "int64"
      [] elem.type = "TYPE_F32" -> "float32"
      [] elem.type = "TYPE_F64" -> "float64"
      [] elem.type \in {"TYPE_STRING", "TYPE_SHORT_STRING"} -> "string"
      [] elem.type = "TYPE_BOOL" -> "bool"
      [] elem.type = "TYPE_CUSTOM" ->
            IF find_enum(ast, elem, space) # {} THEN "int32"
            ELSE IF elem.namespace_name # Null
            THEN elem.namespace_name \o "::" \o elem.custom_name
            ELSE IF space # Null
            THEN space \o "::" \o elem.custom_name
            ELSE elem.custom_name

\* void parseNamespace(const ast_namespace* ns, val& array): the entries of
\* the structs of ns pushed onto array.
parseNamespace(ast, ns, hashes, array) ==
    LET nsName == IF ns.name = Null \/ ns.name = GLOBAL_NAMESPACE THEN "" ELSE ns.name
        Definition(elem) ==
            [name |-> elem.name,
             type |-> TypeName(ast, elem, ns.name),
             upperBound |-> IF elem.type = "TYPE_SHORT_STRING" THEN 16 ELSE Undefined,
             isArray |-> elem.array_suffix # Undefined,
             arrayUpperBound |-> IF elem.array_suffix # Undefined /\ ~elem.is_dynamic_array
                                    /\ elem.is_compact_array
                                 THEN elem.array_suffix ELSE Undefined,
             arrayLength |-> IF elem.array_suffix # Undefined /\ ~elem.is_dynamic_array
                                /\ ~elem.is_compact_array
                             THEN elem.array_suffix ELSE Undefined]
        Entry(st) ==
            [name |-> IF nsName = "" THEN st.name ELSE nsName \o "::" \o st.name,
             hashValue |-> hashes[HashKey(st)],
             naked |-> st.naked,
             definitions |-> [i \in 1..Len(st.elements) |-> Definition(st.elements[i])]]
    IN  array \o [i \in 1..Len(ns.structs) |-> Entry(ns.structs[i])]

\* sizeof(cbuf_preamble), sizeof(std::string) and sizeof(std::vector<size_t>)
\* of the WebAssembly build
SizeofPreamble == 24
SizeofString == 12
SizeofVector == 12

\* st->csize, 0 until it is computed
Csize(sizes, st) == IF HashKey(st) \in DOMAIN sizes THEN sizes[HashKey(st)] ELSE 0

RECURSIVE computeSizes(_, _, _, _)
RECURSIVE computeElementTypeSize(_, _, _, _, _)
RECURSIVE SizeElements(_, _, _, _, _)

\* static bool computeSizes(ast_struct* st, SymbolTable* symtable, Interp*
\* interp), called at the call depth `depth`: [ok, sizes].  A struct whose
\* csize is above 0 is taken for computed.
computeSizes(ast, st, sizes, depth) ==
    IF depth > MaxDepth THEN Overflow
    ELSE IF Csize(sizes, st) > 0 THEN [ok |-> TRUE, sizes |-> sizes]
    ELSE SizeElements(ast, st, 1,
                      IF ~st.naked THEN Put(sizes, HashKey(st), SizeofPreamble) ELSE sizes,
                      depth)

\* bool computeElementTypeSize(elem, symtable, interp, csize): [ok, csize, sizes]
computeElementTypeSize(ast, st, elem, sizes, depth) ==
    CASE elem.type \in {"TYPE_U8", "TYPE_S8", "TYPE_BOOL"} ->
             [ok |-> TRUE, csize |-> 1, sizes |-> sizes]
      [] elem.type \in {"TYPE_U16", "TYPE_S16"} -> [ok |-> TRUE, csize |-> 2, sizes |-> sizes]
      [] elem.type \in {"TYPE_F32", "TYPE_U32", "TYPE_S32"} ->
             [ok |-> TRUE, csize |-> 4, sizes |-> sizes]
      [] elem.type \in {"TYPE_F64", "TYPE_U64", "TYPE_S64"} ->
             [ok |-> TRUE, csize |-> 8, sizes |-> sizes]
      [] elem.type = "TYPE_STRING" -> [ok |-> TRUE, csize |-> SizeofString, sizes |-> sizes]
      [] elem.type = "TYPE_SHORT_STRING" -> [ok |-> TRUE, csize |-> 16, sizes |-> sizes]
      [] elem.type = "TYPE_CUSTOM" ->
             IF find_enum(ast, elem, st.space) # {}
             THEN [ok |-> TRUE, csize |-> 4, sizes |-> sizes]
             ELSE IF find_struct(ast, elem, st.space) = {}
             THEN Fail("Could not find struct")
             ELSE LET Inner(inner_st, bret) ==
                          IF ~bret.ok THEN bret
                          ELSE [ok |-> TRUE, csize |-> Csize(bret.sizes, inner_st),
                                sizes |-> bret.sizes]
                      Nested(inner_st) ==
                          Inner(inner_st, computeSizes(ast, inner_st, sizes, depth + 1))
                  IN  Nested(CHOOSE found \in find_struct(ast, elem, st.space) : TRUE)

\* The loop over st->elements of computeSizes, from element i on.
SizeElements(ast, st, i, sizes, depth) ==
    IF i > Len(st.elements) THEN [ok |-> TRUE, sizes |-> sizes]
    ELSE LET elem == st.elements[i]
             ElemCsize(csize) ==
                 IF elem.array_suffix = Undefined THEN csize
                 ELSE IF elem.is_dynamic_array THEN SizeofVector
                 ELSE (IF elem.is_compact_array THEN 4 ELSE 0) + elem.array_suffix * csize
             Rest(r) ==
                 IF ~r.ok THEN r
                 ELSE SizeElements(ast, st, i + 1,
                                   Put(r.sizes, HashKey(st),
                                       Csize(r.sizes, st) + ElemCsize(r.csize)),
                                   depth)
         IN  Rest(computeElementTypeSize(ast, st, elem, sizes, depth))

\* The structs in the order of loop_all_structs: those of ast->spaces, then
\* those of the global namespace.
LoopAllStructs(ast) ==
    LET RECURSIVE Structs(_)
        Structs(spaces) == IF Len(spaces) = 0 THEN <<>>
                           ELSE Head(spaces).structs \o Structs(Tail(spaces))
    IN  Structs(ast.spaces) \o ast.global_space.structs

\* bool CBufParser::ParseMetadata(metadata, struct_name): the AST of the text
\* (none for a text the parser rejects), the symbol table and the sizes of
\* all structs, loop_all_structs(ast, sym, &interp, compute_sizes).
ParseMetadata(text) ==
    IF ~text.parses THEN Fail("Error during parsing")
    ELSE LET RECURSIVE All(_, _)
             All(structs, sizes) ==
                 IF Len(structs) = 0 THEN [ok |-> TRUE, ast |-> text]
                 ELSE LET Rest(r) == IF r = Overflow THEN r
                                     ELSE IF ~r.ok THEN Fail("Parsing error: " \o r.err)
                                     ELSE All(Tail(structs), r.sizes)
                      IN  Rest(computeSizes(text, Head(structs), sizes, 1))
         IN  All(LoopAllStructs(text), EmptyObject)

\* The flags of a struct of an AST that no analysis has visited.
NoFlags ==
    [simple |-> FALSE, simple_computed |-> FALSE,
     has_compact |-> FALSE, compact_computed |-> FALSE]

RECURSIVE compute_simple(_, _, _, _)
RECURSIVE SimpleElements(_, _, _, _, _)

\* bool compute_simple(ast_struct* st, SymbolTable* symtable, Interp* interp),
\* called at the call depth `depth`: [ok, ret, flags] with the value returned
\* and the flags of all structs after the call.
compute_simple(ast, st, flags, depth) ==
    IF depth > MaxDepth THEN Overflow
    ELSE IF flags[HashKey(st)].simple_computed
    THEN [ok |-> TRUE, ret |-> flags[HashKey(st)].simple, flags |-> flags]
    ELSE SimpleElements(ast, st, 1, [flags EXCEPT ![HashKey(st)].simple = TRUE], depth)

\* The loop over st->elements of compute_simple, from element i on.
SimpleElements(ast, st, i, flags, depth) ==
    LET NotSimple(f) ==
            [ok |-> TRUE, ret |-> TRUE,
             flags |-> [f EXCEPT ![HashKey(st)].simple = FALSE,
                                 ![HashKey(st)].simple_computed = TRUE]]
    IN
    IF i > Len(st.elements)
    THEN [ok |-> TRUE, ret |-> TRUE,
          flags |-> [flags EXCEPT ![HashKey(st)].simple_computed = TRUE]]
    ELSE IF st.elements[i].type = "TYPE_STRING" THEN NotSimple(flags)
    ELSE IF st.elements[i].is_dynamic_array THEN NotSimple(flags)
    ELSE IF st.elements[i].type # "TYPE_CUSTOM"
    THEN SimpleElements(ast, st, i + 1, flags, depth)
    ELSE IF find_struct(ast, st.elements[i], st.space) = {}
             /\ find_enum(ast, st.elements[i], st.space) = {}
    THEN [ok |-> TRUE, ret |-> FALSE, flags |-> flags]
    ELSE IF find_struct(ast, st.elements[i], st.space) = {}
    THEN SimpleElements(ast, st, i + 1, flags, depth)
    ELSE LET Inner(inner_st, r) ==
                 IF ~r.ok THEN r
                 ELSE IF ~r.ret THEN [ok |-> TRUE, ret |-> FALSE, flags |-> r.flags]
                 ELSE IF ~r.flags[HashKey(inner_st)].simple THEN NotSimple(r.flags)
                 ELSE SimpleElements(ast, st, i + 1, r.flags, depth)
             Nested(inner_st) == Inner(inner_st, compute_simple(ast, inner_st, flags, depth + 1))
         IN  Nested(CHOOSE found \in find_struct(ast, st.elements[i], st.space) : TRUE)

RECURSIVE compute_compact(_, _, _, _)
RECURSIVE CompactElements(_, _, _, _, _)

\* bool compute_compact(ast_struct* st, SymbolTable* symtable, Interp* interp)
compute_compact(ast, st, flags, depth) ==
    IF depth > MaxDepth THEN Overflow
    ELSE IF flags[HashKey(st)].compact_computed
    THEN [ok |-> TRUE, ret |-> flags[HashKey(st)].has_compact, flags |-> flags]
    ELSE CompactElements(ast, st, 1, [flags EXCEPT ![HashKey(st)].has_compact = FALSE],
                         depth)

\* The loop over st->elements of compute_compact, from element i on.
CompactElements(ast, st, i, flags, depth) ==
    IF i > Len(st.elements)
    THEN [ok |-> TRUE, ret |-> TRUE,
          flags |-> [flags EXCEPT ![HashKey(st)].compact_computed = TRUE]]
    ELSE IF st.elements[i].type = "TYPE_STRING"
    THEN CompactElements(ast, st, i + 1, flags, depth)
    ELSE IF st.elements[i].is_compact_array
    THEN [ok |-> TRUE, ret |-> TRUE,
          flags |-> [flags EXCEPT ![HashKey(st)].has_compact = TRUE,
                                  ![HashKey(st)].compact_computed = TRUE]]
    ELSE IF st.elements[i].type # "TYPE_CUSTOM"
    THEN CompactElements(ast, st, i + 1, flags, depth)
    ELSE IF find_struct(ast, st.elements[i], st.space) = {}
             /\ find_enum(ast, st.elements[i], st.space) = {}
    THEN [ok |-> TRUE, ret |-> FALSE, flags |-> flags]
    ELSE IF find_struct(ast, st.elements[i], st.space) = {}
    THEN CompactElements(ast, st, i + 1, flags, depth)
    ELSE LET Inner(inner_st, r) ==
                 IF ~r.ok THEN r
                 ELSE IF ~r.ret THEN [ok |-> TRUE, ret |-> FALSE, flags |-> r.flags]
                 ELSE IF r.flags[HashKey(inner_st)].has_compact
                 THEN \* st->has_compact = true; st->simple_computed = true;
                      [ok |-> TRUE, ret |-> TRUE,
                       flags |-> [r.flags EXCEPT ![HashKey(st)].has_compact = TRUE,
                                                 ![HashKey(st)].simple_computed = TRUE]]
                 ELSE CompactElements(ast, st, i + 1, r.flags, depth)
             Nested(inner_st) ==
                 Inner(inner_st, compute_compact(ast, inner_st, flags, depth + 1))
         IN  Nested(CHOOSE found \in find_struct(ast, st.elements[i], st.space) : TRUE)

\* val parseCBufSchema(val schema) of the WebAssembly module: [ok, schema] or
\* [ok, err, schema] from MakeError.  The parser, its symbol table, its error
\* string and the AST with the hashes are objects of this call alone.
ModuleParseCBufSchema(schemaStr) ==
    LET Hashed(ast, hashed) ==
            IF ~hashed.ok THEN [ok |-> FALSE, err |-> hashed.err, schema |-> <<>>]
            ELSE LET RECURSIVE Each(_, _)
                     Each(spaces, array) ==
                         IF Len(spaces) = 0 THEN array
                         ELSE Each(Tail(spaces),
                                   parseNamespace(ast, Head(spaces), hashed.hashes, array))
                 IN  [ok |-> TRUE, schema |-> Each(Spaces(ast), <<>>)]
        Parsed(meta) ==
            IF ~meta.ok THEN [ok |-> FALSE, err |-> meta.err, schema |-> <<>>]
            ELSE Hashed(meta.ast, computeHashes(meta.ast))
    IN  Parsed(ParseMetadata(schemaStr))

-----------------------------------------------------------------------------
(* Loading the module, and parseCBufSchema *)

\* The module object the factory promise resolves with.
Mod == [k |-> "module"]

\* an ensureLoaded that lets every call pass
EnsureNothing(module) == [ok |-> TRUE]

\* function ensureLoaded() { if (!Module) throw new Error(...) }
ensureLoaded(module) == IF module = Undef THEN Fail("NotLoaded") ELSE [ok |-> TRUE]

\* a map that is the map of the call before
SameMap(previous) == IF previous.ok THEN previous.schema ELSE EmptyObject

\* new Map(); previous is what the call before returned
NewMap(previous) == EmptyObject

\* function parseCBufSchema(schemaText) of index.js: the error thrown, or the
\* object returned, with error Null when it has none.
parseCBufSchema(module, text, previous) ==
    IF ~ensureLoaded(module).ok THEN ensureLoaded(module)
    ELSE IF module = Undef THEN Fail("TypeError")
    ELSE LET RECURSIVE Set(_, _)
             Set(definitions, schema) ==
                 IF Len(definitions) = 0 THEN schema
                 ELSE Set(Tail(definitions),
                          Put(schema, Head(definitions).name, Head(definitions)))
             Result(res) ==
                 IF ~res.ok
                 THEN [ok |-> TRUE, error |-> res.err, schema |-> NewMap(previous)]
                 ELSE [ok |-> TRUE, error |-> Null,
                       schema |-> Set(res.schema, NewMap(previous))]
         IN  Result(ModuleParseCBufSchema(text))

-----------------------------------------------------------------------------
(* The callers' inputs: schema texts, as the AST the parser builds of them *)

U32Element(name) == Element("TYPE_U32", name, Null, Null)

GlobalStruct == AstStruct(GLOBAL_NAMESPACE, "GlobalStruct", FALSE, <<U32Element("x")>>)

LocalStruct == AstStruct("messages", "LocalStruct", TRUE, <<U32Element("x")>>)

\* A text of the structs globals outside every namespace and of the
\* namespaces spaces.
Text(globals, spaces) ==
    [parses |-> TRUE, global_space |-> Namespace(GLOBAL_NAMESPACE, globals, <<>>),
     spaces |-> spaces]

\* The schema of the test "parses all cbuf schema features", with the three
\* custom-typed elements of messages::test.
TestSchema ==
    Text(<<GlobalStruct>>,
         <<Namespace("messages",
                     <<LocalStruct,
                       AstStruct("messages", "test", FALSE,
                                 <<U32Element("x"),
                                   Element("TYPE_CUSTOM", "r", "GlobalStruct", Null),
                                   Element("TYPE_CUSTOM", "s", "LocalStruct", Null),
                                   Element("TYPE_CUSTOM", "u", "LocalEnum", Null)>>)>>,
                     <<"LocalEnum">>)>>)

\* Texts: the test schema; structs of the global namespace only, one with a
\* field of the other and arrays; a reference qualified with its namespace,
\* from another namespace; a struct of a namespace with the name of a global
\* one; structs of a namespace only; a reference to nothing; a text that the
\* parser rejects.
Texts ==
    {TestSchema,
     Text(<<GlobalStruct,
            AstStruct(GLOBAL_NAMESPACE, "pair", FALSE,
                      <<Element("TYPE_CUSTOM", "a", "GlobalStruct", Null),
                        [Element("TYPE_U8", "b", Null, Null) EXCEPT !.array_suffix = 2],
                        [Element("TYPE_SHORT_STRING", "s", Null, Null) EXCEPT
                             !.array_suffix = 2, !.is_compact_array = TRUE],
                        [Element("TYPE_STRING", "r", Null, Null) EXCEPT
                             !.array_suffix = 0, !.is_dynamic_array = TRUE]>>)>>,
          <<>>),
     Text(<<>>,
          <<Namespace("messages", <<LocalStruct>>, <<>>),
            Namespace("other",
                      <<AstStruct("other", "test", FALSE,
                                  <<Element("TYPE_CUSTOM", "s", "LocalStruct", "messages")>>)>>,
                      <<>>)>>),
     Text(<<GlobalStruct>>,
          <<Namespace("messages",
                      <<AstStruct("messages", "GlobalStruct", FALSE,
                                  <<Element("TYPE_U8", "x", Null, Null)>>),
                        AstStruct("messages", "test", FALSE,
                                  <<Element("TYPE_CUSTOM", "r", "GlobalStruct", Null)>>)>>,
                      <<>>)>>),
     Text(<<>>,
          <<Namespace("messages",
                      <<LocalStruct,
                        AstStruct("messages", "pair", FALSE,
                                  <<Element("TYPE_CUSTOM", "a", "LocalStruct", Null),
                                    Element("TYPE_CUSTOM", "b", "LocalStruct", "messages")>>)>>,
                      <<>>)>>),
     Text(<<AstStruct(GLOBAL_NAMESPACE, "test", FALSE,
                      <<Element("TYPE_CUSTOM", "r", "Missing", Null)>>)>>,
          <<>>),
     [Text(<<>>, <<>>) EXCEPT !.parses = FALSE]}

\* The text with the default values of its elements taken out.
NoDefaults(text) ==
    LET Bare(st) ==
            [st EXCEPT !.elements = [e \in 1..Len(st.elements) |->
                                         [st.elements[e] EXCEPT !.init_value = Null]]]
        BareSpace(ns) ==
            [ns EXCEPT !.structs = [j \in 1..Len(ns.structs) |-> Bare(ns.structs[j])]]
    IN  [text EXCEPT !.global_space = BareSpace(text.global_space),
                     !.spaces = [i \in 1..Len(text.spaces) |-> BareSpace(text.spaces[i])]]

\* The text with its namespaces in the opposite order.
Reversed(text) ==
    [text EXCEPT !.spaces = [i \in 1..Len(text.spaces) |->
                                 text.spaces[Len(text.spaces) + 1 - i]]]

\* struct pair { GlobalStruct a; u8 b[2] @compact; }
CompactPair ==
    AstStruct(GLOBAL_NAMESPACE, "pair", FALSE,
              <<Element("TYPE_CUSTOM", "a", "GlobalStruct", Null),
                [Element("TYPE_U8", "b", Null, Null) EXCEPT
                     !.array_suffix = 2, !.is_compact_array = TRUE]>>)

\* The texts analysed: the test schema, without and with a default value
\* (`u32 x = 4;` in GlobalStruct); structs that nest to the depth of three,
\* the middle one with a compact array, the outer one with a short string and
\* an enum, and the same with a string or a dynamic array in the inner one; two
\* unrelated namespaces, in both orders; a struct that has a field of its own
\* type, with and without a header, and two structs that have a field of each
\* other.
AstTexts ==
    LET Defaulted(st) == [st EXCEPT !.elements[1].init_value = "4"]
        Nest(inner) ==
            Text(<<AstStruct(GLOBAL_NAMESPACE, "test", FALSE,
                             <<Element("TYPE_CUSTOM", "r", "pair", Null),
                               Element("TYPE_SHORT_STRING", "s", Null, Null),
                               Element("TYPE_CUSTOM", "u", "LocalEnum", "messages")>>),
                   CompactPair, inner>>,
                 <<Namespace("messages", <<>>, <<"LocalEnum">>)>>)
        Two == Text(<<>>,
                    <<Namespace("messages", <<LocalStruct>>, <<>>),
                      Namespace("other",
                                <<AstStruct("other", "test", FALSE, <<U32Element("x")>>)>>,
                                <<>>)>>)
        Own(naked) ==
            Text(<<AstStruct(GLOBAL_NAMESPACE, "test", naked,
                             <<Element("TYPE_CUSTOM", "r", "test", Null)>>)>>, <<>>)
    IN  {TestSchema,
         [TestSchema EXCEPT !.global_space.structs[1] = Defaulted(GlobalStruct)],
         Nest(GlobalStruct),
         Nest(AstStruct(GLOBAL_NAMESPACE, "GlobalStruct", FALSE,
                        <<Element("TYPE_STRING", "s", Null, Null)>>)),
         Nest(AstStruct(GLOBAL_NAMESPACE, "GlobalStruct", FALSE,
                        <<[Element("TYPE_U8", "b", Null, Null) EXCEPT
                               !.array_suffix = 0, !.is_dynamic_array = TRUE]>>)),
         Two, Reversed(Two),
         Own(FALSE), Own(TRUE),
         Text(<<AstStruct(GLOBAL_NAMESPACE, "pair", FALSE,
                          <<Element("TYPE_CUSTOM", "a", "test", Null)>>),
                AstStruct(GLOBAL_NAMESPACE, "test", FALSE,
                          <<Element("TYPE_CUSTOM", "r", "pair", Null)>>)>>, <<>>)}

-----------------------------------------------------------------------------
(* The state machine: a caller holding a schema map and a hash map, calling  *)
(* the exported functions                                                  *)

None == [ok |-> FALSE, err |-> "none"]

NoData == Uint8Array(<<>>, 0, 0)

\* The record deserializeMessage returned, as the caller holds it.
RecordOf(r) ==
    [typeName |-> r.typeName, size |-> r.size, variant |-> r.variant,
     hashValue |-> r.hashValue, timestamp |-> r.timestamp, message |-> r.message]

\* The messages that lack one field of msg: a field of msg itself or a field
\* of a struct that is the value of a field of msg.
Lacking(msg) ==
    LET Without(object, name) == [n \in DOMAIN object \ {name} |-> object[n]]
        Structs == {n \in DOMAIN msg.v : msg.v[n].k = "msg"}
    IN  {[msg EXCEPT !.v = Without(msg.v, name)] : name \in DOMAIN msg.v}
        \cup UNION {{[msg EXCEPT !.v[n].v = Without(msg.v[n].v, name)] :
                        name \in DOMAIN msg.v[n].v} : n \in Structs}

\* The records a caller passes on after a successful decode: the record as
\* returned, the record without its variant, and the record with a message
\* that lacks a field.
Records(r) ==
    {RecordOf(r), [RecordOf(r) EXCEPT !.variant = Undef]}
    \cup {[RecordOf(r) EXCEPT !.message = msg] : msg \in Lacking(r.message)}

Init ==
    /\ schemaMap \in Schemas
    /\ hashMap = EmptyMap
    /\ data = NoData
    /\ offset = Undefined
    /\ result = None
    /\ message = None
    /\ returned = None
    /\ op = "init"
    /\ Module = Undef
    /\ fulfilled = {}
    /\ reactions = {}
    /\ jobs = <<>>
    /\ schemaText = None
    /\ parsed = None
    /\ calls = 0
    /\ global = None
    /\ computed = None
    /\ visit = None

\* const hashMap = Cbuf.schemaMapToHashMap(schemaMap); it never throws.
SchemaMapToHashMap ==
    /\ op = "init"
    /\ hashMap' = schemaMapToHashMap(schemaMap)
    /\ returned' = [ok |-> TRUE, map |-> schemaMapToHashMap(schemaMap)]
    /\ op' = "schemaMapToHashMap"
    /\ UNCHANGED <<schemaMap, data, offset, result, message, loading, parser, analysis>>

\* Cbuf.deserializeMessage(schemaMap, hashMap, data, offset)
DeserializeMessage ==
    /\ op \in {"init", "schemaMapToHashMap"}
    /\ \E call \in Inputs(schemaMap) :
           /\ data' = call[1]
           /\ offset' = call[2]
           /\ result' = deserializeMessage(schemaMap, hashMap, call[1], call[2])
    /\ message' = None
    /\ returned' = None
    /\ op' = "deserializeMessage"
    /\ UNCHANGED <<schemaMap, hashMap, loading, parser, analysis>>

\* Cbuf.serializedMessageSize(schemaMap, hashMap, record)
SerializedMessageSize ==
    /\ op = "deserializeMessage"
    /\ result.ok
    /\ \E rec \in Records(result) :
           /\ message' = rec
           /\ returned' = serializedMessageSize(schemaMap, hashMap, rec)
    /\ op' = "serializedMessageSize"
    /\ UNCHANGED <<schemaMap, hashMap, data, offset, result, loading, parser, analysis>>

\* Cbuf.serializeMessage(schemaMap, hashMap, record)
SerializeMessage ==
    /\ op = "deserializeMessage"
    /\ result.ok
    /\ \E rec \in Records(result) :
           /\ message' = rec
           /\ returned' = serializeMessage(schemaMap, hashMap, rec)
    /\ op' = "serializeMessage"
    /\ UNCHANGED <<schemaMap, hashMap, data, offset, result, loading, parser, analysis>>

Next ==
    \/ SchemaMapToHashMap
    \/ DeserializeMessage
    \/ SerializedMessageSize
    \/ SerializeMessage

Spec == Init /\ [][Next]_vars

-----------------------------------------------------------------------------
(* The module while it loads: the promise of the module factory, the two    *)
(* callbacks index.js registers on it, and calls of parseCBufSchema and of   *)
(* the codec functions at any moment                                       *)

\* The promise ModuleFactory() returned is fulfilled with the module: its two
\* reactions are queued in the order index.js registered them, the callback
\* of module.exports.isLoaded first and the one that assigns Module second.
FactoryResolves ==
    /\ "ModulePromise" \notin fulfilled
    /\ fulfilled' = fulfilled \cup {"ModulePromise"}
    /\ jobs' = jobs \o <<"isLoaded", "Module">>
    /\ UNCHANGED <<caller, Module, reactions, parser, analysis>>

\* mod["ready"] is fulfilled, before or after the factory's promise.
ReadyResolves ==
    /\ "ready" \notin fulfilled
    /\ fulfilled' = fulfilled \cup {"ready"}
    /\ jobs' = IF "ready.then" \in reactions THEN Append(jobs, "ready.then") ELSE jobs
    /\ reactions' = reactions \ {"ready.then"}
    /\ UNCHANGED <<caller, Module, parser, analysis>>

\* The first queued promise job runs.
RunJob ==
    /\ jobs # <<>>
    /\ LET job == Head(jobs)
           rest == Tail(jobs)
       IN  CASE job = "isLoaded" ->
                    \* (mod) => mod["ready"].then(() => {}): the callback is queued
                    \* or waits for mod.ready; the promise returned is a thenable
                    \* that isLoaded is resolved with by a job of its own
                    /\ jobs' = rest \o (IF "ready" \in fulfilled THEN <<"ready.then">> ELSE <<>>)
                                    \o <<"thenable">>
                    /\ reactions' = IF "ready" \in fulfilled THEN reactions
                                    ELSE reactions \cup {"ready.then"}
                    /\ UNCHANGED <<Module, fulfilled>>
             [] job = "Module" ->
                    \* (mod) => { Module = mod }
                    /\ Module' = Mod
                    /\ jobs' = rest
                    /\ UNCHANGED <<fulfilled, reactions>>
             [] job = "ready.then" ->
                    \* () => {} has run: the promise mod.ready.then returned is fulfilled
                    /\ fulfilled' = fulfilled \cup {"then"}
                    /\ jobs' = IF "resolve" \in reactions THEN Append(rest, "resolve") ELSE rest
                    /\ reactions' = reactions \ {"resolve"}
                    /\ UNCHANGED Module
             [] job = "thenable" ->
                    \* then(resolve) on the promise mod.ready.then returned
                    /\ jobs' = IF "then" \in fulfilled THEN Append(rest, "resolve") ELSE rest
                    /\ reactions' = IF "then" \in fulfilled THEN reactions
                                    ELSE reactions \cup {"resolve"}
                    /\ UNCHANGED <<Module, fulfilled>>
             [] job = "resolve" ->
                    /\ fulfilled' = fulfilled \cup {"isLoaded"}
                    /\ jobs' = rest
                    /\ UNCHANGED <<Module, reactions>>
    /\ UNCHANGED <<caller, parser, analysis>>

MaxCalls == 3    \* the largest number of parseCBufSchema calls

\* Cbuf.parseCBufSchema(schemaText)
ParseCBufSchema ==
    /\ calls < MaxCalls
    /\ \E text \in Texts :
           /\ schemaText' = text
           /\ parsed' = parseCBufSchema(Module, text, parsed)
    /\ calls' = calls + 1
    /\ UNCHANGED <<caller, loading, analysis>>

LoadInit ==
    /\ Init
    /\ schemaMap = NakedNest

\* The load callbacks in every order, under a caller that parses schema texts
\* or one that decodes and encodes with the schema map it holds.  The parser
\* reads Module and its argument, the codec reads its arguments: the calls of
\* the two kinds share no state, and their interleavings are not enumerated.
LoadNext ==
    \/ FactoryResolves
    \/ ReadyResolves
    \/ RunJob
    \/ (op = "init" /\ ParseCBufSchema)
    \/ (schemaText = None /\ Next)

LoadSpec == LoadInit /\ [][LoadNext]_vars


-----------------------------------------------------------------------------
(* Round trip and sizes *)

\* C1: serializeMessage applied to the record deserializeMessage returned for
\* a byte range returns exactly the bytes of that range.
C1_RoundTrip ==
    (op = "serializeMessage" /\ message = RecordOf(result)) =>
        LET start == data.byteOffset + (IF offset = Undefined THEN 0 ELSE offset) IN
        /\ returned.ok
        /\ returned.buffer = SubSeq(data.buffer, start + 1, start + result.size)

\* C2: whenever serializeMessage succeeds, the byte length of the buffer it
\* returns equals serializedMessageSize of the same record under the same
\* schema map and hash map.
C2_SizeAgreement ==
    (op = "serializeMessage" /\ returned.ok) =>
        LET size == serializedMessageSize(schemaMap, hashMap, message) IN
        /\ size.ok
        /\ size.n = Len(returned.buffer)

\* A record with a payload was serialized.
C2_Witness ==
    /\ op = "serializeMessage"
    /\ returned.ok
    /\ Len(returned.buffer) > HEADER_SIZE

\* C3: the size_and_variant word serializeMessage writes is
\* 0x80000000 | variant << 27 | size when message.variant is provided and just
\* size, bit 31 clear, when it is not.
C3_VariantWord ==
    (op = "serializeMessage" /\ returned.ok) =>
        LET word == SubSeq(returned.buffer, 5, 8)
            size == U32Bytes(Len(returned.buffer))
        IN  IF message.variant # Undef
            THEN word = <<size[1], size[2], size[3],
                          128 + 8 * message.variant.v + size[4]>>
            ELSE word = size

\* C4: of the size_and_variant word w of a returned record: when bit 31 of w
\* is set, variant = (w >> 27) & 0x0F and size = w & 0x07FFFFFF; otherwise
\* variant = 0 and size = w & 0x7FFFFFFF; 0x88000019 gives variant 1, size 25.
C4_SizeAndVariant ==
    /\ VariantOf(<<25, 0, 0, 136>>) = 1
    /\ SizeOf(<<25, 0, 0, 136>>) = 25
    /\ (op = "deserializeMessage" /\ result.ok) =>
        LET start == data.byteOffset + (IF offset = Undefined THEN 0 ELSE offset)
            w == SubSeq(data.buffer, start + 5, start + 8)
            low == w[1] + 256 * w[2] + 65536 * w[3]
        IN  IF w[4] >= 128
            THEN /\ result.variant.v = (w[4] \div 8) % 16
                 /\ result.size = low + 16777216 * (w[4] % 8)
            ELSE /\ result.variant.v = 0
                 /\ result.size = low + 16777216 * w[4]

\* A record whose word has bit 31 set and a variant other than 0 was returned.
C4_Witness ==
    /\ op = "deserializeMessage"
    /\ result.ok
    /\ result.variant.v = 15
    /\ result.size > HEADER_SIZE

-----------------------------------------------------------------------------
(* The checks of deserializeMessage *)

\* C5: a record is returned only when the four bytes at the offset are the
\* little-endian magic 0x56444E54 and the declared size is at most the number
\* of bytes from the offset on; a magic mismatch fails as InvalidMagic and a
\* larger declared size as TruncatedRecord, whatever the hash and the payload
\* are, the magic being checked first.
C5_MagicAndSize ==
    op = "deserializeMessage" =>
        LET start == IF offset = Undefined THEN 0 ELSE offset
            avail == data.byteLength - start
            at == data.byteOffset + start
            readable == start >= 0 /\ avail >= 24
            magic == SubSeq(data.buffer, at + 1, at + 4)
            w == SubSeq(data.buffer, at + 5, at + 8)
            size == w[1] + 256 * w[2] + 65536 * w[3]
                        + 16777216 * (IF w[4] >= 128 THEN w[4] % 8 ELSE w[4])
        IN  /\ result.ok => readable /\ magic = <<84, 78, 68, 86>> /\ size <= avail
            /\ (readable /\ magic # <<84, 78, 68, 86>>) => result = Fail("InvalidMagic")
            /\ (readable /\ magic = <<84, 78, 68, 86>> /\ size > avail) =>
                   result = Fail("TruncatedRecord")

\* A call failed on the magic although the declared size exceeds the bytes
\* available and no definition has the hash.
C5_Witness ==
    /\ op = "deserializeMessage"
    /\ result = Fail("InvalidMagic")
    /\ offset = Undefined
    /\ SubSeq(data.buffer, data.byteOffset + 5, data.byteOffset + 8)
           = SizeWord(data.byteLength + 2, 1)
    /\ ~LookupHas(hashMap, SubSeq(data.buffer, data.byteOffset + 9, data.byteOffset + 16))

\* C6: the declared size of every returned record is the header length plus
\* the number of payload bytes the decoding of all fields of its definition
\* consumed; when the two differ the call fails as SizeMismatch.
C6_DeclaredSize ==
    op = "deserializeMessage" =>
        LET start == IF offset = Undefined THEN 0 ELSE offset
            avail == data.byteLength - start
            at == data.byteOffset + start
            magic == SubSeq(data.buffer, at + 1, at + 4)
            w == SubSeq(data.buffer, at + 5, at + 8)
            size == w[1] + 256 * w[2] + 65536 * w[3]
                        + 16777216 * (IF w[4] >= 128 THEN w[4] % 8 ELSE w[4])
            recordHash == SubSeq(data.buffer, at + 9, at + 16)
            body == deserializeNakedMessage(schemaMap, hashMap, Lookup(hashMap, recordHash),
                                            DataView(data.buffer, at, avail),
                                            HEADER_SIZE, EmptyObject)
            decodes == /\ start >= 0
                       /\ avail >= 24
                       /\ magic = <<84, 78, 68, 86>>
                       /\ size <= avail
                       /\ LookupHas(hashMap, recordHash)
                       /\ body.ok
        IN  /\ result.ok => decodes /\ result.size = size /\ size = HEADER_SIZE + body.n
            /\ (decodes /\ size # HEADER_SIZE + body.n) => result = Fail("SizeMismatch")

\* A call failed because the declared size is not what the fields consumed.
C6_Witness ==
    /\ op = "deserializeMessage"
    /\ result = Fail("SizeMismatch")
    /\ LookupHas(hashMap, SubSeq(data.buffer, data.byteOffset + 9, data.byteOffset + 16))

\* C7: when the hash map has the hash of the record, the hash map's
\* definition is used, also for the hash of the built-in metadata definition;
\* when it has not and the hash is the built-in one, the built-in definition
\* is used; in every other case the call fails as UnknownHash.
C7_Resolution ==
    op = "deserializeMessage" =>
        LET start == IF offset = Undefined THEN 0 ELSE offset
            avail == data.byteLength - start
            at == data.byteOffset + start
            w == SubSeq(data.buffer, at + 5, at + 8)
            size == w[1] + 256 * w[2] + 65536 * w[3]
                        + 16777216 * (IF w[4] >= 128 THEN w[4] % 8 ELSE w[4])
            recordHash == SubSeq(data.buffer, at + 9, at + 16)
            header == /\ start >= 0
                      /\ avail >= 24
                      /\ SubSeq(data.buffer, at + 1, at + 4) = <<84, 78, 68, 86>>
                      /\ size <= avail
            body == deserializeNakedMessage(schemaMap, hashMap, hashMap[recordHash],
                                            DataView(data.buffer, at, avail),
                                            HEADER_SIZE, EmptyObject)
        IN  header =>
                IF HashHas(hashMap, recordHash)
                THEN /\ result.ok => result.typeName = hashMap[recordHash].name
                     /\ (body.ok /\ size = HEADER_SIZE + body.n) =>
                            /\ result.ok
                            /\ result.message.v = body.message
                ELSE IF recordHash = <<198, 114, 171, 68, 213, 56, 103, 190>>
                THEN result.ok => result.typeName = "cbufmsg::metadata"
                ELSE result = Fail("UnknownHash")

\* C8: the call fails as InvalidOffset when the offset is negative or at
\* least the length of the buffer, fails when fewer than 24 bytes remain
\* from the offset, and treats an omitted offset as 0.
C8_Offset ==
    op = "deserializeMessage" =>
        LET start == IF offset = Undefined THEN 0 ELSE offset IN
        /\ (start < 0 \/ start >= data.byteLength) => result = Fail("InvalidOffset")
        /\ (start >= 0 /\ data.byteLength - start < 24) => ~result.ok
        /\ offset = Undefined => result = deserializeMessage(schemaMap, hashMap, data, 0)

\* C9: no returned record holds, in a compact array field with
\* arrayUpperBound N, more than N elements.
C9_CompactBound ==
    (op = "deserializeMessage" /\ result.ok) =>
        LET defs == Lookup(hashMap, result.hashValue.b).definitions IN
        \A i \in 1..Len(defs) :
            (defs[i].isArray /\ defs[i].arrayUpperBound # Undefined) =>
                LengthOf(result.message.v[defs[i].name]) <= defs[i].arrayUpperBound

-----------------------------------------------------------------------------
(* The hash map *)

\* C10: schemaMapToHashMap reports AmbiguousHash when two definitions of the
\* schema map have the same hashValue; when all hashes differ the map it
\* returns has one entry for each definition, from its hashValue to it.
C10_AmbiguousHash ==
    op = "schemaMapToHashMap" =>
        IF \E i, j \in 1..Len(schemaMap) :
               i # j /\ schemaMap[i].hashValue = schemaMap[j].hashValue
        THEN returned = Fail("AmbiguousHash")
        ELSE /\ returned.ok
             /\ Cardinality(DOMAIN returned.map) = Len(schemaMap)
             /\ \A i \in 1..Len(schemaMap) :
                    /\ schemaMap[i].hashValue \in DOMAIN returned.map
                    /\ returned.map[schemaMap[i].hashValue] = schemaMap[i]

-----------------------------------------------------------------------------
(* Struct-typed fields *)

\* The byte of the decoded record at position i (from 0) of the record.
RecordByte(i) == data.buffer[data.byteOffset + (IF offset = Undefined THEN 0 ELSE offset) + i + 1]

\* C13: a struct-typed field of a naked descriptor is decoded in place, with
\* no header, and the cursor advances by the bytes of its fields; a field of
\* a framed descriptor is decoded as a full record at the cursor, its value
\* is the inner message alone, and the cursor advances by the size the nested
\* header declares.
C13_NestedDecode ==
    (op = "deserializeMessage" /\ result.ok) =>
        /\ (schemaMap = NakedNest /\ result.typeName = "messages::bar") =>
               /\ result.message.v =
                      [foo |-> [k |-> "msg",
                                v |-> [x |-> [k |-> "num", v |-> RecordByte(24)]]]]
               /\ result.size = 25
        /\ (schemaMap = Lists /\ result.typeName = "items") =>
               /\ result.message.v =
                      [items |-> [k |-> "array",
                                  v |-> <<[k |-> "msg",
                                           v |-> [x |-> BasicValue("int8", <<RecordByte(24)>>)]],
                                          [k |-> "msg",
                                           v |-> [x |-> BasicValue("int8", <<RecordByte(25)>>)]]>>]]
               /\ result.size = 26
        /\ (schemaMap = FramedNest /\ result.typeName = "outer") =>
               LET nested == SizeOf(<<RecordByte(28), RecordByte(29), RecordByte(30),
                                      RecordByte(31)>>)
               IN  /\ result.message.v =
                          [in |-> [k |-> "msg",
                                   v |-> [x |-> [k |-> "num", v |-> RecordByte(48)]]],
                           y |-> BasicValue("int16", <<RecordByte(24 + nested),
                                                       RecordByte(25 + nested)>>)]
                   /\ result.size = 24 + nested + 2

\* a framed nested record with a variant and a time stamp in its header has
\* been decoded, and so has a record with a naked struct in it
C13_Witness ==
    /\ op = "deserializeMessage"
    /\ result.ok
    /\ schemaMap = FramedNest
    /\ result.typeName = "outer"
    /\ HasVariant(<<RecordByte(28), RecordByte(29), RecordByte(30), RecordByte(31)>>)
    /\ result.message.v["in"].v.x.v # 0
    /\ result.message.v.y.v # 0

-----------------------------------------------------------------------------
(* Missing values *)

\* C15: serializeMessage fails whenever the message lacks a value for a field
\* of the descriptor, at top level or inside a nested struct; it never writes
\* zero or an empty value in its place.
C15_MissingField ==
    (op = "serializeMessage" /\ message.message \in Lacking(result.message)) =>
        ~returned.ok

\* C16: for a struct-typed field with a framed descriptor serializeMessage
\* writes, at the field's position, the magic, the size word (header length
\* plus nested payload length), the nested descriptor's hash and the time
\* stamp 0.0, and right after them the nested payload; the returned buffer
\* holds the nested header intact.
C16_NestedFrame ==
    (/\ op = "serializeMessage"
     /\ returned.ok
     /\ schemaMap = FramedNest
     /\ message.typeName = "outer"
     /\ message.message = result.message) =>
        SubSeq(returned.buffer, HEADER_SIZE + 1, 2 * HEADER_SIZE + 1) =
            CBUF_MAGIC \o U32Bytes(HEADER_SIZE + 1) \o Hash(2) \o Zeros(8)
            \o <<message.message.v["in"].v.x.v>>

-----------------------------------------------------------------------------
(* Strings *)

\* The n bytes of the decoded record from position i (from 0) on.
RecordBytes(i, n) == [j \in 1..n |-> RecordByte(i + j - 1)]

\* C17: a string field without upperBound decodes to the text of all the
\* `length` bytes that follow its uint32 length prefix, also when a NUL is
\* among them, and the cursor advances by 4 + length.
C17_DynamicString ==
    (op = "deserializeMessage" /\ result.ok /\ schemaMap = Strings
     /\ result.typeName = "strs") =>
        LET length == U32(RecordBytes(HEADER_SIZE, 4)) IN
        /\ result.message.v.s = [k |-> "str", v |-> TextDecode(RecordBytes(HEADER_SIZE + 4, length))]
        /\ result.message.v.t =
               [k |-> "str", v |-> UpToNul(TextDecode(RecordBytes(HEADER_SIZE + 4 + length, 16)))]
        /\ result.size = HEADER_SIZE + 4 + length + 16

\* The 16 bytes of a short string with the value str: its UTF-8 bytes and NUL
\* padding.
Padded(str) == TextEncode(str) \o Zeros(16 - Len(TextEncode(str)))

\* C18: a string field with upperBound 16 takes exactly 16 bytes, without a
\* length prefix, in deserializeMessage, serializedMessageSize and
\* serializeMessage; it decodes to the text before the first NUL and is
\* written as the value followed by NUL padding up to 16 bytes.
C18_ShortString ==
    LET whole == message = RecordOf(result) IN
    /\ (op = "deserializeMessage" /\ result.ok /\ schemaMap = Labels) =>
           IF result.typeName = "label"
           THEN /\ result.size = HEADER_SIZE + 16
                /\ result.message.v.t =
                       [k |-> "str", v |-> UpToNul(TextDecode(RecordBytes(HEADER_SIZE, 16)))]
           ELSE /\ result.size = 2 * HEADER_SIZE + 16
                /\ result.message.v.l.v.t =
                       [k |-> "str", v |-> UpToNul(TextDecode(RecordBytes(2 * HEADER_SIZE, 16)))]
    /\ (op = "serializedMessageSize" /\ whole /\ schemaMap = Labels) =>
           /\ returned.ok
           /\ returned.n = IF result.typeName = "label" THEN HEADER_SIZE + 16
                           ELSE 2 * HEADER_SIZE + 16
    /\ (op = "serializeMessage" /\ whole /\ schemaMap = Labels) =>
           /\ returned.ok
           /\ IF result.typeName = "label"
              THEN SubSeq(returned.buffer, HEADER_SIZE + 1, Len(returned.buffer))
                       = Padded(message.message.v.t.v)
              ELSE SubSeq(returned.buffer, 2 * HEADER_SIZE + 1, Len(returned.buffer))
                       = Padded(message.message.v.l.v.t.v)

-----------------------------------------------------------------------------
(* Arrays *)

RECURSIVE StringsSize(_)
\* The sum over the strings of an array of 4 + the length of the UTF-8
\* encoding.
StringsSize(strings) ==
    IF Len(strings) = 0 THEN 0
    ELSE 4 + Len(TextEncode(Head(strings).v)) + StringsSize(Tail(strings))

\* C19: serializedMessageSize and serializeMessage recurse into the elements
\* of string arrays and struct arrays and never fail on them; a dynamic
\* string counts 4 plus the byte length of its UTF-8 encoding, an array of k
\* strings 4 (when dynamic or compact) plus the sum of that over its
\* elements, an array of structs the sum of its elements' sizes.
C19_ElementSizes ==
    (op \in {"serializedMessageSize", "serializeMessage"} /\ message = RecordOf(result)
     /\ schemaMap \in {Lists, Strings}) =>
        LET size == IF op = "serializeMessage" THEN Len(returned.buffer) ELSE returned.n
            body == message.message.v
        IN  /\ returned.ok
            /\ result.typeName = "names" =>
                   size = HEADER_SIZE + 4 + StringsSize(body.names.v)
            /\ result.typeName = "items" =>
                   size = HEADER_SIZE + Len(body.items.v)
            /\ result.typeName = "strs" =>
                   size = HEADER_SIZE + 4 + Len(TextEncode(body.s.v)) + 16

\* C20: for a dynamic or compact array whose value holds k elements, typed
\* arrays included, serializeMessage writes the uint32 count k and then the k
\* elements, and serializedMessageSize counts 4 + k * element size; for a
\* fixed array arrayLength elements are written and no count.
C20_ArrayMirror ==
    (op \in {"serializedMessageSize", "serializeMessage"} /\ message = RecordOf(result)
     /\ schemaMap = Arrays) =>
        LET size == IF op = "serializeMessage" THEN Len(returned.buffer) ELSE returned.n
            body == message.message.v
            Written(from, n) == SubSeq(returned.buffer, from + 1, from + n)
        IN  /\ returned.ok
            /\ result.typeName = "compact" =>
                   LET k == LengthOf(body.c) IN
                   /\ size = HEADER_SIZE + 4 + k + 1
                   /\ op = "serializeMessage" =>
                          /\ Written(HEADER_SIZE, 4) = U32Bytes(k)
                          /\ \A i \in 1..k :
                                 Written(HEADER_SIZE + 4 + i - 1, 1) = body.c.elems[i]
            /\ result.typeName = "dynamic" =>
                   LET k == LengthOf(body.d) IN
                   /\ size = HEADER_SIZE + 1 + 4 + 2 * k
                   /\ op = "serializeMessage" =>
                          /\ Written(HEADER_SIZE + 1, 4) = U32Bytes(k)
                          /\ \A i \in 1..k :
                                 Written(HEADER_SIZE + 5 + 2 * (i - 1), 2) = body.d.elems[i]
            /\ result.typeName = "fixed" => size = HEADER_SIZE + 2 * 4


-----------------------------------------------------------------------------
(* A parser holding the AST of a text, and the analyses called on its        *)
(* structs, in any order and any number of times                             *)

\* What a call that returned `ret` leaves in visit; a call that never returns
\* leaves Crashed.
Returned(func, key, ret) == [func |-> func, key |-> key, returned |-> TRUE, ret |-> ret]

Crashed(func, key) == [func |-> func, key |-> key, returned |-> FALSE, ret |-> FALSE]

\* parser.ParseMetadata(text, "") on a new parser
ParseBuffer ==
    /\ global = None
    /\ visit = None
    /\ \E text \in AstTexts :
           LET meta == ParseMetadata(text) IN
           IF meta = Overflow
           THEN /\ visit' = Crashed("ParseMetadata", "")
                /\ UNCHANGED <<global, computed>>
           ELSE /\ visit' = Returned("ParseMetadata", "", meta.ok)
                /\ global' = IF meta.ok THEN text ELSE global
                /\ computed' =
                       IF meta.ok
                       THEN [hashes |-> EmptyObject,
                             flags |-> [key \in {HashKey(LoopAllStructs(text)[i]) :
                                                   i \in 1..Len(LoopAllStructs(text))} |->
                                            NoFlags]]
                       ELSE computed
    /\ UNCHANGED <<caller, loading, parser>>

\* ComputeHash(st, symtable, &interp) for a struct of the AST
HashStruct ==
    /\ global # None
    /\ visit.returned
    /\ \E i \in 1..Len(LoopAllStructs(global)) :
           LET st == LoopAllStructs(global)[i]
               Done(r) ==
                   IF r = Overflow
                   THEN /\ visit' = Crashed("ComputeHash", HashKey(st))
                        /\ UNCHANGED computed
                   ELSE /\ visit' = Returned("ComputeHash", HashKey(st), r.ok)
                        /\ computed' = [computed EXCEPT !.hashes = r.hashes]
           IN  Done(ComputeHash(global, st, computed.hashes, 1))
    /\ UNCHANGED <<caller, loading, parser, global>>

\* compute_simple(st, symtable, &interp) for a struct of the AST
SimpleStruct ==
    /\ global # None
    /\ visit.returned
    /\ \E i \in 1..Len(LoopAllStructs(global)) :
           LET st == LoopAllStructs(global)[i]
               Done(r) ==
                   IF r = Overflow
                   THEN /\ visit' = Crashed("compute_simple", HashKey(st))
                        /\ UNCHANGED computed
                   ELSE /\ visit' = Returned("compute_simple", HashKey(st), r.ret)
                        /\ computed' = [computed EXCEPT !.flags = r.flags]
           IN  Done(compute_simple(global, st, computed.flags, 1))
    /\ UNCHANGED <<caller, loading, parser, global>>

\* compute_compact(st, symtable, &interp) for a struct of the AST
CompactStruct ==
    /\ global # None
    /\ visit.returned
    /\ \E i \in 1..Len(LoopAllStructs(global)) :
           LET st == LoopAllStructs(global)[i]
               Done(r) ==
                   IF r = Overflow
                   THEN /\ visit' = Crashed("compute_compact", HashKey(st))
                        /\ UNCHANGED computed
                   ELSE /\ visit' = Returned("compute_compact", HashKey(st), r.ret)
                        /\ computed' = [computed EXCEPT !.flags = r.flags]
           IN  Done(compute_compact(global, st, computed.flags, 1))
    /\ UNCHANGED <<caller, loading, parser, global>>

AstInit ==
    /\ Init
    /\ schemaMap = <<>>

AstNext ==
    \/ ParseBuffer
    \/ HashStruct
    \/ SimpleStruct
    \/ CompactStruct

AstSpec == AstInit /\ [][AstNext]_vars

-----------------------------------------------------------------------------
(* C11 *)

\* C11: in every ordering of the load callbacks, a parseCBufSchema call made
\* before the factory promise has resolved throws the error of ensureLoaded,
\* and a call made once isLoaded has resolved does not; Module is assigned
\* when isLoaded resolves; deserializeMessage, serializedMessageSize and
\* serializeMessage never throw that error, whatever the load state.
C11_LoadGate ==
    [][/\ (calls' # calls) =>
              /\ ("ModulePromise" \notin fulfilled) => parsed' = Fail("NotLoaded")
              /\ ("isLoaded" \in fulfilled) => parsed'.ok
       /\ ("isLoaded" \in fulfilled') => Module' = Mod
       /\ result' # Fail("NotLoaded")
       /\ returned' # Fail("NotLoaded")]_vars

\* A schema text parsed after isLoaded has resolved.
C11_Witness ==
    /\ "isLoaded" \in fulfilled
    /\ schemaText = TestSchema
    /\ parsed.ok

-----------------------------------------------------------------------------
(* C12 *)

-----------------------------------------------------------------------------
(* C14 *)

\* C14: in a parsed schema, the type emitted for a struct-typed element is the
\* qualified name of the struct the reference resolves to (in the namespace
\* the reference names, else in the namespace of the enclosing struct, else
\* in the global namespace: `G` for a global struct, `N::L` for a struct of
\* N), and it is a key of the schema map.
C14_TypeName ==
    (parsed.ok /\ parsed.error = Null) =>
        LET QualifiedName(st) ==
                IF st.space = GLOBAL_NAMESPACE THEN st.name ELSE st.space \o "::" \o st.name
        IN  \A i \in 1..Len(Spaces(schemaText)) :
                \A j \in 1..Len(Spaces(schemaText)[i].structs) :
                    LET st == Spaces(schemaText)[i].structs[j] IN
                    \A e \in 1..Len(st.elements) :
                        (/\ st.elements[e].type = "TYPE_CUSTOM"
                         /\ find_enum(schemaText, st.elements[e], st.space) = {}) =>
                            LET found == CHOOSE inner_st \in
                                             find_struct(schemaText, st.elements[e], st.space) :
                                             TRUE
                                emitted == parsed.schema[QualifiedName(st)].definitions[e].type
                            IN  /\ emitted = QualifiedName(found)
                                /\ emitted \in DOMAIN parsed.schema

-----------------------------------------------------------------------------
(* C21 *)

\* C21: serializedMessageSize returns 16 plus the size of the payload, which
\* counts 16 more for a nested struct whose descriptor is not naked and
\* nothing more for a naked one: 16 + 1 for messages::bar (a naked foo of one
\* uint8), 16 + (16 + 1) + 2 for outer (a framed inner of one uint8, and an
\* int16), 16 + (16 + 16) for tagged (a framed label of one short string).
C21_Sixteen ==
    (op = "serializedMessageSize" /\ schemaMap \in {NakedNest, FramedNest, Labels}
     /\ returned.ok) =>
        /\ returned.n =
               16 + serializedNakedMessageSize(schemaMap, hashMap,
                                               Lookup(hashMap, message.hashValue.b),
                                               message.message).n
        /\ message.typeName = "messages::bar" => returned.n = 17
        /\ message.typeName = "outer" => returned.n = 35
        /\ message.typeName = "tagged" => returned.n = 48

\* C21, amended: the header is 24 bytes (magic, size and variant, hash,
\* timestamp).  serializedMessageSize returns for every record as decoded, and
\* what it returns is 24 plus the size of the payload, which counts 24 more
\* for a nested struct whose descriptor is not naked and nothing more for a
\* naked one: 24 + 1 for messages::bar, 24 + (24 + 1) + 2 for outer,
\* 24 + (24 + 16) for tagged, 24 + 1 for the structs nested, on their own.
C21_HeaderSizes ==
    (op = "serializedMessageSize" /\ schemaMap \in {NakedNest, FramedNest, Labels}) =>
        /\ message = RecordOf(result) => returned.ok
        /\ returned.ok =>
               /\ message.typeName = "messages::bar" => returned.n = 25
               /\ message.typeName = "outer" => returned.n = 51
               /\ message.typeName = "tagged" => returned.n = 64
               /\ message.typeName \in {"inner", "messages::foo"} => returned.n = 25
               /\ message.typeName = "label" => returned.n = 40

\* The size of a decoded outer, which nests a struct that has a header.
C21_Witness ==
    /\ op = "serializedMessageSize"
    /\ schemaMap = FramedNest
    /\ message = RecordOf(result)
    /\ message.typeName = "outer"
    /\ returned = [ok |-> TRUE, n |-> 51]

-----------------------------------------------------------------------------
(* C22 *)

\* C22: whatever the order and the number of the ComputeHash calls on the
\* structs of a text, a hash once computed never changes, and it is the hash
\* that computeHashes gives the struct for the same text without its default
\* values and with its namespaces in the opposite order; struct GlobalStruct
\* { u32 x; } has the hash 10441124924358324479 and LocalStruct of messages
\* 13251862435611663173 in every text that declares them.
C22_HashStability ==
    [][global' # None =>
           LET reference == computeHashes(Reversed(NoDefaults(global')))
               structs == LoopAllStructs(NoDefaults(global'))
               Declares(st) == \E i \in 1..Len(structs) : structs[i] = st
           IN  /\ \A key \in DOMAIN computed'.hashes :
                      /\ reference.ok
                      /\ computed'.hashes[key] = reference.hashes[key]
                      /\ (key = HashKey(GlobalStruct) /\ Declares(GlobalStruct)) =>
                             computed'.hashes[key] = <<255, 240, 218, 155, 204, 83, 230, 144>>
                      /\ (key = HashKey(LocalStruct) /\ Declares(LocalStruct)) =>
                             computed'.hashes[key] = <<69, 219, 249, 126, 172, 18, 232, 183>>
               /\ global # None =>
                      \A key \in DOMAIN computed.hashes :
                          /\ key \in DOMAIN computed'.hashes
                          /\ computed'.hashes[key] = computed.hashes[key]]_vars

\* The test schema with a default value in GlobalStruct: GlobalStruct visited
\* again when the hashes of all three structs are computed.
C22_Witness ==
    /\ global # None
    /\ global # NoDefaults(global)
    /\ NoDefaults(global) = TestSchema
    /\ visit = Returned("ComputeHash", HashKey(GlobalStruct), TRUE)
    /\ DOMAIN computed.hashes = DOMAIN computed.flags

-----------------------------------------------------------------------------
(* C24 *)

\* h << 5 in 64 bits, on the little-endian bytes of h
ShiftLeft5(h) ==
    [i \in 1..8 |-> ((h[i] * 32) % 256) + (IF i > 1 THEN h[i - 1] \div 8 ELSE 0)]

\* ((h << 5) + h) + c in 64 bits
Djb2Step(h, c) ==
    LET RECURSIVE Carry(_)
        \* the carry into byte i of the sum
        Carry(i) == IF i = 1 THEN c
                    ELSE (ShiftLeft5(h)[i - 1] + h[i - 1] + Carry(i - 1)) \div 256
    IN  [i \in 1..8 |-> (ShiftLeft5(h)[i] + h[i] + Carry(i)) % 256]

\* The text ComputeHash builds of the struct st of the AST, once the hashes
\* of the structs st nests are computed.
TextOf(st) == HashElements(global, st, 1, StructLine(st), computed.hashes, 1).buf

\* C24: the hash of a struct is the DJB2 hash of its text in 64 bits: 5381 for
\* no bytes, ((h << 5) + h) + b mod 2^64 for the bytes before b hashed to h,
\* and nothing of the bytes from a NUL on.
C24_Djb2 ==
    (global # None /\ visit.func = "ComputeHash" /\ visit.returned) =>
        \A i \in 1..Len(LoopAllStructs(global)) :
            LET st == LoopAllStructs(global)[i] IN
            HashKey(st) = visit.key =>
                /\ computed.hashes[visit.key] = hash(TextOf(st))
                /\ hash(<<>>) = <<5, 21, 0, 0, 0, 0, 0, 0>>
                /\ \A n \in 1..Len(TextOf(st)) :
                       hash(SubSeq(TextOf(st), 1, n)) =
                           Djb2Step(hash(SubSeq(TextOf(st), 1, n - 1)), TextOf(st)[n])
                /\ hash(TextOf(st) \o <<0, 65>>) = hash(TextOf(st))

\* The hash of GlobalStruct of the test schema, 0x90E653CC9BDAF0FF, which more
\* than 64 bits would not hold.
C24_Witness ==
    /\ global = TestSchema
    /\ visit = Returned("ComputeHash", HashKey(GlobalStruct), TRUE)
    /\ Len(TextOf(GlobalStruct)) = 34
    /\ computed.hashes[visit.key] = <<255, 240, 218, 155, 204, 83, 230, 144>>

-----------------------------------------------------------------------------
(* C25 *)

\* C25: every ComputeHash call returns, and it returns false for a struct
\* that nests itself, directly or through another struct; a struct whose hash
\* is computed nests only structs whose hashes are computed.
C25_Cycles ==
    (global # None /\ visit.func = "ComputeHash") =>
        LET structs == LoopAllStructs(global)
            Nests(st) ==
                {HashKey(CHOOSE found \in find_struct(global, st.elements[e], st.space) : TRUE) :
                   e \in {n \in 1..Len(st.elements) :
                            /\ st.elements[n].type = "TYPE_CUSTOM"
                            /\ find_enum(global, st.elements[n], st.space) = {}}}
            Struct_(key) == structs[CHOOSE i \in 1..Len(structs) : HashKey(structs[i]) = key]
            RECURSIVE Reach(_, _)
            \* the structs nested in those of `keys`, in at most n steps
            Reach(keys, n) ==
                IF n = 0 THEN keys
                ELSE Reach(keys \cup UNION {Nests(Struct_(key)) : key \in keys}, n - 1)
            Cyclic(key) == key \in Reach(Nests(Struct_(key)), Len(structs))
        IN  /\ visit.returned
            /\ Cyclic(visit.key) => ~visit.ret
            /\ \A key \in DOMAIN computed.hashes :
                   Nests(Struct_(key)) \subseteq DOMAIN computed.hashes

-----------------------------------------------------------------------------
(* C26 *)

\* The struct of the AST that the element elem of st resolves to, as a set.
NestedStruct(st, elem) ==
    IF elem.type = "TYPE_CUSTOM" /\ find_enum(global, elem, st.space) = {}
    THEN find_struct(global, elem, st.space) ELSE {}

RECURSIVE IsSimple(_)
\* No string, no dynamic array, and every struct nested is simple.
IsSimple(st) ==
    \A e \in 1..Len(st.elements) :
        /\ st.elements[e].type # "TYPE_STRING"
        /\ ~st.elements[e].is_dynamic_array
        /\ \A inner_st \in NestedStruct(st, st.elements[e]) : IsSimple(inner_st)

\* C26: for a text without cycles whose structs compute_compact has not
\* visited, every compute_simple call returns true, in any order of the
\* calls, and a struct it has returned for is marked computed, with `simple`
\* true iff it has no string, no dynamic array and nests simple structs only.
C26_Simple ==
    (/\ global # None
     /\ computeHashes(global).ok
     /\ visit.func = "compute_simple"
     /\ \A key \in DOMAIN computed.flags :
            ~computed.flags[key].has_compact /\ ~computed.flags[key].compact_computed) =>
        /\ visit.returned
        /\ visit.ret
        /\ computed.flags[visit.key].simple_computed
        /\ \A i \in 1..Len(LoopAllStructs(global)) :
               LET st == LoopAllStructs(global)[i] IN
               computed.flags[HashKey(st)].simple_computed =>
                   computed.flags[HashKey(st)].simple = IsSimple(st)

-----------------------------------------------------------------------------
(* C27 *)

RECURSIVE HasCompact(_)
\* A compact array among the elements that are not strings, or a struct
\* nested, at any depth, that has one.
HasCompact(st) ==
    \E e \in 1..Len(st.elements) :
        \/ st.elements[e].type # "TYPE_STRING" /\ st.elements[e].is_compact_array
        \/ \E inner_st \in NestedStruct(st, st.elements[e]) : HasCompact(inner_st)

\* C27: for a text without cycles, every compute_compact call returns true,
\* in any order of the calls, leaves the struct it was called for with
\* `has_compact` true iff the struct has a compact array or nests, at any
\* depth, a struct that has one, and leaves `simple` and `simple_computed`
\* of every struct as they were.
C27_Compact ==
    [][(/\ global # None
        /\ computeHashes(global).ok
        /\ visit'.func = "compute_compact") =>
           /\ visit'.returned
           /\ visit'.ret
           /\ \A i \in 1..Len(LoopAllStructs(global)) :
                  LET st == LoopAllStructs(global)[i] IN
                  HashKey(st) = visit'.key =>
                      computed'.flags[HashKey(st)].has_compact = HasCompact(st)
           /\ \A key \in DOMAIN computed.flags :
                  /\ computed'.flags[key].simple = computed.flags[key].simple
                  /\ computed'.flags[key].simple_computed =
                         computed.flags[key].simple_computed]_vars

-----------------------------------------------------------------------------
(* C28 *)

\* The byte of the caller's ArrayBuffer the record starts at.
FrameStart == data.byteOffset + (IF offset = Undefined THEN 0 ELSE offset)

\* The array `array` is what count elements of `size` bytes at byte `at` of
\* the caller's ArrayBuffer decode to: a view over that buffer when `at` is a
\* multiple of size, a view over a copy otherwise.
TypedAt(array, ctor, at, size, count) ==
    /\ array.k = "typed"
    /\ array.ctor = ctor
    /\ DOMAIN array.elems = 1..count
    /\ \A i \in 1..count :
           array.elems[i] = SubSeq(data.buffer, at + (i - 1) * size + 1, at + i * size)
    /\ array.aliased = (at % size = 0)
    /\ array.byteOffset = (IF at % size = 0 THEN at ELSE 0)

\* C28: a numeric or bool array of a decoded record holds the elements at
\* the cursor, count * element size bytes of the caller's buffer, whether the
\* byte offset is aligned or not; it is a view over the caller's buffer when
\* the offset is aligned and a view over a copy when it is not; and the
\* cursor advances by count * element size.
C28_TypedArrays ==
    (op = "deserializeMessage" /\ result.ok /\ schemaMap = Arrays) =>
        LET body == result.message.v
            At(n) == FrameStart + HEADER_SIZE + n
            Count(n) == U32(SubSeq(data.buffer, At(n) + 1, At(n) + 4))
        IN  /\ result.typeName = "compact" =>
                   /\ TypedAt(body.c, "Uint8Array", At(4), 1, Count(0))
                   /\ body.y = [k |-> "num", v |-> data.buffer[At(4) + Count(0) + 1]]
                   /\ result.size = HEADER_SIZE + 4 + Count(0) + 1
            /\ result.typeName = "dynamic" =>
                   /\ TypedAt(body.d, "Uint16Array", At(5), 2, Count(1))
                   /\ result.size = HEADER_SIZE + 5 + 2 * Count(1)
            /\ result.typeName = "fixed" =>
                   /\ TypedAt(body.e, "Float32Array", At(0), 4, 2)
                   /\ result.size = HEADER_SIZE + 8

\* A record decoded with two different uint16 elements at an odd byte of the
\* caller's buffer: the array is a view over a copy.
C28_Witness ==
    /\ op = "deserializeMessage" /\ result.ok /\ schemaMap = Arrays
    /\ result.typeName = "dynamic"
    /\ Len(result.message.v.d.elems) = 2
    /\ ~result.message.v.d.aliased
    /\ result.message.v.d.elems[1] # result.message.v.d.elems[2]

-----------------------------------------------------------------------------
(* C29 *)

RECURSIVE AsciiStrings(_)
\* Every string in the value is made of ASCII characters other than NUL.
AsciiStrings(value) ==
    CASE value.k = "str" -> \A i \in 1..Len(value.v) : value.v[i] \in 1..127
      [] value.k = "msg" -> \A n \in DOMAIN value.v : AsciiStrings(value.v[n])
      [] value.k = "array" -> \A i \in 1..Len(value.v) : AsciiStrings(value.v[i])
      [] OTHER -> TRUE

RECURSIVE Plain(_)
\* The value without the identity of the buffers its typed arrays are views
\* over.
Plain(value) ==
    CASE value.k = "typed" -> [k |-> "typed", ctor |-> value.ctor, elems |-> value.elems]
      [] value.k = "msg" -> [k |-> "msg", v |-> [n \in DOMAIN value.v |-> Plain(value.v[n])]]
      [] value.k = "array" ->
             [k |-> "array", v |-> [i \in 1..Len(value.v) |-> Plain(value.v[i])]]
      [] OTHER -> value

\* C29: for a record with every field present, values in range, ASCII strings
\* without NUL and a variant in 0..15, serializeMessage succeeds and
\* deserializeMessage of the buffer it returns succeeds with the same
\* typeName, hashValue, timestamp, variant and message, and with size equal
\* to the length of the buffer.
C29_Inverse ==
    (op = "serializeMessage" /\ message = RecordOf(result)
     /\ AsciiStrings(message.message)) =>
        /\ returned.ok
        /\ LET back == deserializeMessage(schemaMap, hashMap,
                                          Uint8Array(returned.buffer, 0, Len(returned.buffer)),
                                          Undefined)
           IN  /\ back.ok
               /\ back.typeName = message.typeName
               /\ back.hashValue = message.hashValue
               /\ back.timestamp = message.timestamp
               /\ back.variant = message.variant
               /\ Plain(back.message) = Plain(message.message)
               /\ back.size = Len(returned.buffer)

-----------------------------------------------------------------------------
(* C30 *)

\* C30: in a record deserializeMessage returned, the value of a field
\* declared of a struct with a header has the fields of the descriptor the
\* declared type names, whatever the hash in the nested header.
C30_TypeAgreement ==
    (op = "deserializeMessage" /\ result.ok /\ SchemaHas(schemaMap, result.typeName)) =>
        LET defs == SchemaGet(schemaMap, result.typeName).definitions
            Names(d) == {d.definitions[j].name : j \in 1..Len(d.definitions)}
        IN  \A i \in 1..Len(defs) :
                (/\ defs[i].isComplex /\ ~defs[i].isArray
                 /\ ~SchemaGet(schemaMap, defs[i].type).naked) =>
                    DOMAIN result.message.v[defs[i].name].v =
                        Names(SchemaGet(schemaMap, defs[i].type))

=============================================================================
